---- MODULE Spec2Model ----
(***************************************************************************)
(* Chunk-to-geometry alignment engine of the mandarine RAG backend.        *)
(*                                                                         *)
(* The module models app/services/rag/lightrag_highlighter.py (the         *)
(* skeleton strategy served by LightRAGBridgeService) as a session state   *)
(* machine, and the region mergers of the highlighter classes as pure     *)
(* operators applied to bounded lists of areas.                            *)
(*                                                                         *)
(* Text is a sequence of one-character strings.  Percentages are fixed     *)
(* point numbers with Scale units per percent; the page sizes of the       *)
(* model divide 100 * Scale, so the mapper's divisions are exact.          *)
(***************************************************************************)
EXTENDS Integers, Sequences, FiniteSets, TLC

VARIABLES
    pdf,              \* the PDF file behind pdf_path: a sequence of pages
    doc,              \* self.doc: "None", "open" or "closed"
    global_words,     \* self.global_words
    doc_skeleton,     \* self.doc_skeleton
    char_to_word_idx, \* self.char_to_word_idx (0-based word indices)
    chunks,           \* argument of the last find_all_highlights call
    results,          \* value returned by the last find_all_highlights call
    trace,            \* per chunk of the last call: the loop's local variables
    calls,            \* number of find_all_highlights calls made so far
    mAreas,           \* merger harness: the list of areas handed to a merger
    mMerged,          \* merger harness: the list the merger returned
    mWho,             \* merger harness: which merger ran ("none" before)
    norm,             \* normaliser harness: input, f(input), f(f(input)), which f
    enh,              \* an EnhancedPDFHighlighter over pdf: its fields, last call
    rag,              \* RagService._find_text_bbox_in_pdf: last call, handles left open
    life,             \* one highlighter object: construction, single lookup, close calls
    phs,              \* a pdf_highlighter.PDFHighlighter over pdf: its fields, last call
    hls,              \* which class the caller uses; a highlight.PDFHighlighter over pdf
    split,            \* one call of _split_into_segments, statement by statement
    two               \* two LightRAGHighlighter sessions whose steps interleave

vars == <<pdf, doc, global_words, doc_skeleton, char_to_word_idx,
          chunks, results, trace, calls, mAreas, mMerged, mWho, norm, enh,
          rag, life, phs, hls, split, two>>

sessionVars == <<pdf, doc, global_words, doc_skeleton, char_to_word_idx,
                 chunks, results, trace, calls>>

mergeVars == <<mAreas, mMerged, mWho>>

\* the variables of the harnesses for the other classes and functions
auxVars == <<norm, enh, rag, life, phs, hls, split, two>>

\* the harnesses of pdf_highlighter.py and highlight.py, of the segmentation
\* loop and of the two interleaved sessions
moreVars == <<phs, hls, split, two>>

----------------------------------------------------------------------------
(* Bounds of the model *)

MaxPages == 2      \* pages per PDF
MaxChunks == 2     \* chunks per find_all_highlights call
MaxAreas == 3      \* areas per merger input list

----------------------------------------------------------------------------
(* Fixed point arithmetic *)

Scale == 100       \* units per percent: 1 unit = 0.01 %

Min(x, y) == IF x <= y THEN x ELSE y
Max(x, y) == IF x >= y THEN x ELSE y
Abs(x) == IF x >= 0 THEN x ELSE 0 - x

\* round(x, 1): nearest multiple of 0.1 %, ties to the even multiple
Round1(x) ==
    LET step == Scale \div 10
        q == x \div step
        r == x % step
    IN  IF 2 * r < step THEN q * step
        ELSE IF 2 * r > step THEN (q + 1) * step
        ELSE IF q % 2 = 0 THEN q * step ELSE (q + 1) * step

----------------------------------------------------------------------------
(* Text *)

Whitespace == {" ", "\n", "\t", "NBSP"}

\* str.lower() on the characters of the model's alphabet
LowerChar(c) ==
    CASE c = "H" -> "h"
      [] c = "W" -> "w"
      [] c = "F" -> "f"
      [] OTHER -> c

\* _make_skeleton_segment with the regular expression ' +' in place of '\s+'
SkeletonSpacesOnly(text) ==
    LET lowered == [i \in 1..Len(text) |-> LowerChar(text[i])]
    IN  SelectSeq(lowered, LAMBDA c : c # " ")

\* LightRAGHighlighter._make_skeleton_segment: lower(), then drop every
\* whitespace character
_make_skeleton_segment(text) ==
    LET lowered == [i \in 1..Len(text) |-> LowerChar(text[i])]
    IN  SelectSeq(lowered, LAMBDA c : c \notin Whitespace)

----------------------------------------------------------------------------
(* The PDF files of the model.  A word is the tuple page.get_text("words")  *)
(* returns, <<x0, y0, x1, y1, text>> in points; a page is its rect and its  *)
(* words in extraction order.  Extraction does not clip: a word box may     *)
(* reach past the page rect.                                                *)

W(x0, y0, x1, y1, text) == <<x0, y0, x1, y1, text>>

tHello == <<"H", "e", "l", "l", "o">>
tWorld == <<"w", "o", "r", "l", "d">>
tFoo == <<"f", "o", "o">>
tBar == <<"b", "a", "r">>
tBaz == <<"b", "a", "z">>
tQux == <<"q", "u", "x">>
tAlpha == <<"a", "l", "p", "h", "a">>
tBeta == <<"b", "e", "t", "a">>
tGamma == <<"g", "a", "m", "m", "a">>
tDelta == <<"d", "e", "l", "t", "a">>

\* "Hello world foo bar": three words on one line (gaps 2 % and 10 %), one
\* word on the next line
PageA ==
    [width |-> 500, height |-> 1250,
     words |-> << W(50, 100, 90, 115, tHello), W(100, 100, 140, 115, tWorld),
                  W(190, 100, 220, 115, tFoo), W(50, 125, 80, 140, tBar) >>]

\* "Hello world baz qux": the second word sits 0.24 % lower and is taller,
\* the third is 32 % to the right
PageB ==
    [width |-> 500, height |-> 1250,
     words |-> << W(50, 100, 90, 115, tHello), W(100, 103, 140, 125, tWorld),
                  W(300, 100, 330, 115, tBaz), W(50, 125, 80, 140, tQux) >>]

\* "alpha beta gamma delta" on the last line of the page; the last word ends
\* in the bottom right corner
PageC ==
    [width |-> 500, height |-> 1250,
     words |-> << W(50, 1235, 100, 1250, tAlpha), W(110, 1235, 150, 1250, tBeta),
                  W(160, 1235, 210, 1250, tGamma), W(450, 1235, 500, 1250, tDelta) >>]

\* "Hello <nbsp> World Foo bar" on a wider page: one word is whitespace only,
\* and the last word reaches 10 points past the right edge of the page
PageD ==
    [width |-> 1000, height |-> 1250,
     words |-> << W(100, 100, 180, 115, tHello), W(185, 100, 190, 115, <<"NBSP">>),
                  W(200, 100, 280, 115, <<"W", "o", "r", "l", "d">>),
                  W(400, 100, 460, 115, <<"F", "o", "o">>),
                  W(960, 125, 1010, 140, tBar) >>]

Pages == {PageA, PageB, PageC, PageD}

RECURSIVE SeqsUpTo(_, _)
SeqsUpTo(S, n) ==
    IF n = 0 THEN {<<>>}
    ELSE LET shorter == SeqsUpTo(S, n - 1)
         IN  shorter \cup {Append(q, x) : q \in {r \in shorter : Len(r) = n - 1}, x \in S}

PDFs == SeqsUpTo(Pages, MaxPages)

----------------------------------------------------------------------------
(* LightRAGHighlighter._load_pdf *)

\* the (page_idx, w) pairs in the order the two nested loops visit them
RECURSIVE WordStream(_, _)
WordStream(file, p) ==
    IF p > Len(file) THEN <<>>
    ELSE [k \in 1..Len(file[p].words) |-> [page |-> p - 1, w |-> file[p].words[k]]]
         \o WordStream(file, p + 1)

\* IndexWord with word_idx taken after the append without the "- 1"
IndexWordOffByOne(idx, page_idx, w) ==
    LET text_content == w[5]
        clean_text == _make_skeleton_segment(text_content)
    IN  IF clean_text = <<>> THEN idx
        ELSE LET words2 == Append(idx.global_words,
                                  [page |-> page_idx,
                                   bbox |-> <<w[1], w[2], w[3], w[4]>>,
                                   text |-> text_content])
                 word_idx == Len(words2)
             IN  [global_words |-> words2,
                  doc_skeleton |-> idx.doc_skeleton \o clean_text,
                  char_to_word_idx |-> idx.char_to_word_idx
                                       \o [i \in 1..Len(clean_text) |-> word_idx]]

\* IndexWord without the "if not clean_text: continue"
IndexWordKeepsEmpty(idx, page_idx, w) ==
    LET text_content == w[5]
        clean_text == _make_skeleton_segment(text_content)
        words2 == Append(idx.global_words,
                         [page |-> page_idx, bbox |-> <<w[1], w[2], w[3], w[4]>>,
                          text |-> text_content])
        word_idx == Len(words2) - 1
    IN  [global_words |-> words2,
         doc_skeleton |-> idx.doc_skeleton \o clean_text,
         char_to_word_idx |-> idx.char_to_word_idx
                              \o [i \in 1..Len(clean_text) |-> word_idx]]

\* body of the inner loop for one word, applied to the index built so far
IndexWord(idx, page_idx, w) ==
    LET text_content == w[5]
        clean_text == _make_skeleton_segment(text_content)
    IN  IF clean_text = <<>> THEN idx
        ELSE LET words2 == Append(idx.global_words,
                                  [page |-> page_idx,
                                   bbox |-> <<w[1], w[2], w[3], w[4]>>,
                                   text |-> text_content])
                 word_idx == Len(words2) - 1
             IN  [global_words |-> words2,
                  doc_skeleton |-> idx.doc_skeleton \o clean_text,
                  char_to_word_idx |-> idx.char_to_word_idx
                                       \o [i \in 1..Len(clean_text) |-> word_idx]]

RECURSIVE IndexWords(_, _, _)
IndexWords(idx, stream, k) ==
    IF k > Len(stream) THEN idx
    ELSE IndexWords(IndexWord(idx, stream[k].page, stream[k].w), stream, k + 1)

EmptyIndex == [global_words |-> <<>>, doc_skeleton |-> <<>>, char_to_word_idx |-> <<>>]

BuildIndex(file) == IndexWords(EmptyIndex, WordStream(file, 1), 1)

\* __init__ -> _load_pdf: open the document and build the skeleton index
_load_pdf ==
    /\ doc = "None"
    /\ doc' = "open"
    /\ LET idx == BuildIndex(pdf)
       IN  /\ global_words' = idx.global_words
           /\ doc_skeleton' = idx.doc_skeleton
           /\ char_to_word_idx' = idx.char_to_word_idx
    /\ UNCHANGED <<pdf, chunks, results, trace, calls, mergeVars, auxVars>>

----------------------------------------------------------------------------
(* difflib.SequenceMatcher(None, a, b, autojunk=False).find_longest_match   *)
(* over the whole of a and b.  Offsets a, b are 0-based as in Python.  The  *)
(* scan visits a from left to right; j2len[j] is the length of the run that *)
(* ends at a[i], b[j]; a run replaces the best one only when strictly       *)
(* longer, so among the longest runs the one starting earliest in a, then   *)
(* earliest in b, is returned.                                              *)

RECURSIVE FlmScan(_, _, _, _, _)
FlmScan(a, b, i, j2len, best) ==
    IF i > Len(a) THEN best
    ELSE LET js == {j \in 1..Len(b) : b[j] = a[i]}
             newj2len == [j \in js |->
                            IF (j - 1) \in DOMAIN j2len THEN j2len[j - 1] + 1 ELSE 1]
             rowmax == IF js = {} THEN 0
                       ELSE CHOOSE k \in {newj2len[j] : j \in js} :
                                \A j \in js : newj2len[j] <= k
             jbest == IF js = {} THEN 0
                      ELSE CHOOSE j \in js :
                               /\ newj2len[j] = rowmax
                               /\ \A j2 \in js : newj2len[j2] = rowmax => j <= j2
             best2 == IF rowmax > best.size
                      THEN [a |-> i - rowmax, b |-> jbest - rowmax, size |-> rowmax]
                      ELSE best
         IN  FlmScan(a, b, i + 1, newj2len, best2)

\* find_longest_match that lets a later run of the same length replace the
\* best one, so that the latest of the longest runs is returned
RECURSIVE FlmScanLatest(_, _, _, _, _)
FlmScanLatest(a, b, i, j2len, best) ==
    IF i > Len(a) THEN best
    ELSE LET js == {j \in 1..Len(b) : b[j] = a[i]}
             newj2len == [j \in js |->
                            IF (j - 1) \in DOMAIN j2len THEN j2len[j - 1] + 1 ELSE 1]
             rowmax == IF js = {} THEN 0
                       ELSE CHOOSE k \in {newj2len[j] : j \in js} :
                                \A j \in js : newj2len[j] <= k
             jbest == IF js = {} THEN 0
                      ELSE CHOOSE j \in js :
                               /\ newj2len[j] = rowmax
                               /\ \A j2 \in js : newj2len[j2] = rowmax => j <= j2
             best2 == IF rowmax > 0 /\ rowmax >= best.size
                      THEN [a |-> i - rowmax, b |-> jbest - rowmax, size |-> rowmax]
                      ELSE best
         IN  FlmScanLatest(a, b, i + 1, newj2len, best2)

find_longest_match_latest(a, b) ==
    FlmScanLatest(a, b, 1, [j \in {} |-> 0], [a |-> 0, b |-> 0, size |-> 0])

find_longest_match(a, b) ==
    FlmScan(a, b, 1, [j \in {} |-> 0], [a |-> 0, b |-> 0, size |-> 0])

----------------------------------------------------------------------------
(* LightRAGHighlighter._words_to_areas *)

\* (v / dim) * 100 in fixed point
Percent(v, dim) == (v * 100 * Scale) \div dim

\* WordToArea with the top divided by the page width
WordToAreaWrongDim(file, w) ==
    LET page_idx == w.page
        pw == file[page_idx + 1].width
        x0 == w.bbox[1]
        y0 == w.bbox[2]
        x1 == w.bbox[3]
        y1 == w.bbox[4]
    IN  [pageIndex |-> page_idx,
         left |-> Percent(x0, pw),
         top |-> Percent(y0, pw),
         width |-> Percent(x1 - x0, pw),
         height |-> Percent(y1 - y0, pw)]

\* WordToArea with the 1-based page number as pageIndex
WordToAreaOneBased(file, w) ==
    LET page_idx == w.page
        pw == file[page_idx + 1].width
        ph == file[page_idx + 1].height
        x0 == w.bbox[1]
        y0 == w.bbox[2]
        x1 == w.bbox[3]
        y1 == w.bbox[4]
    IN  [pageIndex |-> page_idx + 1,
         left |-> Percent(x0, pw),
         top |-> Percent(y0, ph),
         width |-> Percent(x1 - x0, pw),
         height |-> Percent(y1 - y0, ph)]

WordToArea(file, w) ==
    LET page_idx == w.page
        pw == file[page_idx + 1].width
        ph == file[page_idx + 1].height
        x0 == w.bbox[1]
        y0 == w.bbox[2]
        x1 == w.bbox[3]
        y1 == w.bbox[4]
    IN  [pageIndex |-> page_idx,
         left |-> Percent(x0, pw),
         top |-> Percent(y0, ph),
         width |-> Percent(x1 - x0, pw),
         height |-> Percent(y1 - y0, ph)]

_words_to_areas(file, words) == [k \in 1..Len(words) |-> WordToArea(file, words[k])]

----------------------------------------------------------------------------
(* list.sort(key=...): a stable sort *)

\* lexicographic order on the key tuples (pageIndex, top key, left)
KeyLess(k1, k2) ==
    \/ k1[1] < k2[1]
    \/ k1[1] = k2[1] /\ k1[2] < k2[2]
    \/ k1[1] = k2[1] /\ k1[2] = k2[2] /\ k1[3] < k2[3]

\* insert the keyed item x behind every item whose key is not greater
RECURSIVE InsertByKey(_, _)
InsertByKey(sorted, x) ==
    IF sorted = <<>> THEN <<x>>
    ELSE IF KeyLess(x.key, sorted[Len(sorted)].key)
         THEN Append(InsertByKey(SubSeq(sorted, 1, Len(sorted) - 1), x),
                     sorted[Len(sorted)])
         ELSE Append(sorted, x)

RECURSIVE SortKeyed(_)
SortKeyed(items) ==
    IF items = <<>> THEN <<>>
    ELSE InsertByKey(SortKeyed(SubSeq(items, 1, Len(items) - 1)), items[Len(items)])

\* areas sorted by keys[i], the key of areas[i]; equal keys keep their order
StableSort(areas, keys) ==
    LET sorted == SortKeyed([i \in 1..Len(areas) |-> [key |-> keys[i], val |-> areas[i]]])
    IN  [i \in 1..Len(areas) |-> sorted[i].val]

RoundedKey(x) == <<x.pageIndex, Round1(x.top), x.left>>

----------------------------------------------------------------------------
(* LightRAGHighlighter._merge_areas *)

LR_VERTICAL == 150       \* 1.5 %
LR_HORIZONTAL == 2000    \* 20.0 %

\* LR_Merges with the strict comparisons of the other mergers
LR_MergesStrict(current, next_area) ==
    /\ current.pageIndex = next_area.pageIndex
    /\ Abs(current.top - next_area.top) < LR_VERTICAL
    /\ next_area.left - (current.left + current.width) < LR_HORIZONTAL

\* LR_Merges without the test of the page
LR_MergesAcrossPages(current, next_area) ==
    /\ ~ (Abs(current.top - next_area.top) > LR_VERTICAL)
    /\ ~ (next_area.left - (current.left + current.width) > LR_HORIZONTAL)

\* the three "break" tests of the loop body: TRUE when next_area is folded
\* into current
LR_Merges(current, next_area) ==
    /\ current.pageIndex = next_area.pageIndex
    /\ ~ (Abs(current.top - next_area.top) > LR_VERTICAL)
    /\ ~ (next_area.left - (current.left + current.width) > LR_HORIZONTAL)

\* the "GOP" block: the area that replaces current
LR_Fold(current, next_area) ==
    LET new_left == Min(current.left, next_area.left)
        new_top == Min(current.top, next_area.top)
        current_right == current.left + current.width
        next_right == next_area.left + next_area.width
        new_width == Max(current_right, next_right) - new_left
        new_height == Max(current.height, next_area.height)
    IN  [pageIndex |-> current.pageIndex, left |-> new_left, top |-> new_top,
         width |-> new_width, height |-> new_height]

RECURSIVE LR_Walk(_, _, _, _)
LR_Walk(sorted, k, current, merged) ==
    IF k > Len(sorted) THEN Append(merged, current)
    ELSE IF LR_Merges(current, sorted[k])
         THEN LR_Walk(sorted, k + 1, LR_Fold(current, sorted[k]), merged)
         ELSE LR_Walk(sorted, k + 1, sorted[k], Append(merged, current))

LR_merge_areas(areas) ==
    IF areas = <<>> THEN <<>>
    ELSE LET sorted == StableSort(areas, [i \in 1..Len(areas) |-> RoundedKey(areas[i])])
         IN  LR_Walk(sorted, 2, sorted[1], <<>>)

----------------------------------------------------------------------------
(* EnhancedPDFHighlighter._merge_areas (enhanced_highlighter.py) *)

EN_VERTICAL == 150       \* 1.5 %
EN_HORIZONTAL == 400     \* 4.0 %

EN_Merges(curr, nxt) ==
    /\ curr.pageIndex = nxt.pageIndex
    /\ Abs(curr.top - nxt.top) < EN_VERTICAL
    /\ nxt.left - (curr.left + curr.width) < EN_HORIZONTAL

EN_Fold(curr, nxt) ==
    LET new_left == Min(curr.left, nxt.left)
        new_top == Min(curr.top, nxt.top)
        new_right == Max(curr.left + curr.width, nxt.left + nxt.width)
        new_width == new_right - new_left
        new_height == Max(curr.height, nxt.height)
    IN  [pageIndex |-> curr.pageIndex, left |-> new_left, top |-> new_top,
         width |-> new_width, height |-> new_height]

RECURSIVE EN_Walk(_, _, _, _)
EN_Walk(sorted, k, curr, merged) ==
    IF k > Len(sorted) THEN Append(merged, curr)
    ELSE IF EN_Merges(curr, sorted[k])
         THEN EN_Walk(sorted, k + 1, EN_Fold(curr, sorted[k]), merged)
         ELSE EN_Walk(sorted, k + 1, sorted[k], Append(merged, curr))

EN_merge_areas(areas) ==
    IF areas = <<>> THEN <<>>
    ELSE LET sorted == StableSort(areas, [i \in 1..Len(areas) |-> RoundedKey(areas[i])])
         IN  EN_Walk(sorted, 2, sorted[1], <<>>)

----------------------------------------------------------------------------
(* PDFHighlighter._merge_areas (highlight.py) *)

HL_VERTICAL == 100       \* 1.0 %
HL_HORIZONTAL == 300     \* 3.0 %

ExactKey(x) == <<x.pageIndex, x.top, x.left>>

HL_Merges(current, next_area) ==
    LET vertical_diff == Abs(current.top - next_area.top)
        horizontal_gap == next_area.left - (current.left + current.width)
    IN  /\ current.pageIndex = next_area.pageIndex
        /\ vertical_diff < HL_VERTICAL
        /\ horizontal_gap < HL_HORIZONTAL

HL_Fold(current, next_area) ==
    LET new_left == Min(current.left, next_area.left)
        new_top == Min(current.top, next_area.top)
        right_edge == Max(current.left + current.width, next_area.left + next_area.width)
        new_width == right_edge - new_left
        new_height == Max(current.height, next_area.height)
    IN  [pageIndex |-> current.pageIndex, left |-> new_left, top |-> new_top,
         width |-> new_width, height |-> new_height]

RECURSIVE HL_Walk(_, _, _, _)
HL_Walk(sorted, k, current, merged) ==
    IF k > Len(sorted) THEN Append(merged, current)
    ELSE IF HL_Merges(current, sorted[k])
         THEN HL_Walk(sorted, k + 1, HL_Fold(current, sorted[k]), merged)
         ELSE HL_Walk(sorted, k + 1, sorted[k], Append(merged, current))

HL_merge_areas(areas) ==
    IF areas = <<>> THEN <<>>
    ELSE LET sorted == StableSort(areas, [i \in 1..Len(areas) |-> ExactKey(areas[i])])
         IN  HL_Walk(sorted, 2, sorted[1], <<>>)

----------------------------------------------------------------------------
(* PDFHighlighter._merge_adjacent_areas (pdf_highlighter.py) *)

PH_VERTICAL_GAP == 100   \* 1.0 %

\* key (pageIndex, top); the third component is constant
PageTopKey(a) == <<a.pageIndex, a.top, 0>>

PH_Merges(current, next_area) ==
    /\ current.pageIndex = next_area.pageIndex
    /\ Abs(current.top + current.height - next_area.top) < PH_VERTICAL_GAP

PH_Fold(current, next_area) ==
    LET new_left == Min(current.left, next_area.left)
        new_right == Max(current.left + current.width, next_area.left + next_area.width)
        new_top == Min(current.top, next_area.top)
        new_bottom == Max(current.top + current.height, next_area.top + next_area.height)
    IN  [pageIndex |-> current.pageIndex, left |-> new_left, top |-> new_top,
         width |-> new_right - new_left, height |-> new_bottom - new_top]

RECURSIVE PH_Walk(_, _, _, _)
PH_Walk(sorted_areas, k, current, merged) ==
    IF k > Len(sorted_areas) THEN Append(merged, current)
    ELSE IF PH_Merges(current, sorted_areas[k])
         THEN PH_Walk(sorted_areas, k + 1, PH_Fold(current, sorted_areas[k]), merged)
         ELSE PH_Walk(sorted_areas, k + 1, sorted_areas[k], Append(merged, current))

PH_merge_adjacent_areas(areas) ==
    IF Len(areas) <= 1 THEN areas
    ELSE LET sorted_areas ==
                 StableSort(areas, [i \in 1..Len(areas) |-> PageTopKey(areas[i])])
         IN  PH_Walk(sorted_areas, 2, sorted_areas[1], <<>>)

----------------------------------------------------------------------------
(* The chunks handed to find_all_highlights.  A chunk is a Python dict; the *)
(* LightRAG API sends chunk_id/content, the other callers id/text/page.     *)

SP == <<" ">>

\* dict.get(key, default)
Get(d, key, default) == IF key \in DOMAIN d THEN d[key] ELSE default

\* "Hello world foo bar": the four words of PageA, 16 skeleton characters,
\* sent with page hint 2
ChunkLine == [id |-> "line", text |-> tHello \o SP \o tWorld \o SP \o tFoo \o SP \o tBar,
              page |-> 2]

\* the same text with whitespace added inside and between the words
ChunkSpaced ==
    [chunk_id |-> "spaced",
     content |-> <<"H", "e", " ", "l", "l", "o", "\n">> \o tWorld \o <<" ", " ">>
                 \o tFoo \o <<"\n", "\n">> \o tBar \o SP]

\* "Hello world foo": 13 skeleton characters
ChunkShort == [chunk_id |-> "short", content |-> tHello \o SP \o tWorld \o SP \o tFoo]

\* "foo bar": 6 skeleton characters, and no id at all
ChunkTiny == [content |-> tFoo \o SP \o tBar]

ChunkEmpty == [chunk_id |-> "empty", content |-> <<>>]

\* "foo bar Hello world baz": the end of PageA followed by the start of PageB
ChunkSpan ==
    [chunk_id |-> "span",
     content |-> tFoo \o SP \o tBar \o SP \o tHello \o SP \o tWorld \o SP \o tBaz]

\* "mma delta Hello world baz qu zzz": starts inside a word of PageC, runs
\* into PageB, ends inside a word and carries text no page has
ChunkPart ==
    [chunk_id |-> "part",
     content |-> <<"m", "m", "a">> \o SP \o tDelta \o SP \o tHello \o SP \o tWorld
                 \o SP \o tBaz \o SP \o <<"q", "u">> \o SP \o <<"z", "z", "z">>]

Chunks == {ChunkLine, ChunkSpaced, ChunkShort, ChunkTiny, ChunkEmpty,
           ChunkSpan, ChunkPart}

ChunkLists == SeqsUpTo(Chunks, MaxChunks)

----------------------------------------------------------------------------
(* LightRAGHighlighter.find_all_highlights *)

\* the callers open a session with "with LightRAGHighlighter(path) as
\* highlighter" and call find_all_highlights once inside it
CallsPerSession == 1

MIN_CHUNK_SKELETON == 10   \* len(chunk_skeleton) < 10: skipped
\* the acceptance threshold confused with the chunk length threshold
MinMatchSizeLoose == MIN_CHUNK_SKELETON
MIN_MATCH_SIZE == 15       \* match.size < 15: no good match

\* list[i] raises IndexError unless -len <= i < len
IndexOk(list, i) == 0 - Len(list) <= i /\ i < Len(list)
PyItem(list, i) == IF i >= 0 THEN list[i + 1] ELSE list[Len(list) + i + 1]

\* list[lo : hi] for 0 <= lo
PySlice(list, lo, hi) ==
    LET h == Min(hi, Len(list))
    IN  IF lo >= h THEN <<>> ELSE SubSeq(list, lo + 1, h)

\* the keys of page_counts in insertion order
RECURSIVE PageKeys(_, _, _)
PageKeys(merged, k, keys) ==
    IF k > Len(merged) THEN keys
    ELSE IF \E i \in 1..Len(keys) : keys[i] = merged[k].pageIndex
         THEN PageKeys(merged, k + 1, keys)
         ELSE PageKeys(merged, k + 1, Append(keys, merged[k].pageIndex))

PageCount(merged, p) == Cardinality({k \in 1..Len(merged) : merged[k].pageIndex = p})

\* MaxKey that lets a later key with an equal count win
RECURSIVE MaxKeyLast(_, _, _, _)
MaxKeyLast(merged, keys, k, best) ==
    IF k > Len(keys) THEN best
    ELSE IF PageCount(merged, keys[k]) >= PageCount(merged, best)
         THEN MaxKeyLast(merged, keys, k + 1, keys[k])
         ELSE MaxKeyLast(merged, keys, k + 1, best)

\* max(page_counts, key=page_counts.get): the first key, in iteration order,
\* whose count no later key exceeds strictly
RECURSIVE MaxKey(_, _, _, _)
MaxKey(merged, keys, k, best) ==
    IF k > Len(keys) THEN best
    ELSE IF PageCount(merged, keys[k]) > PageCount(merged, best)
         THEN MaxKey(merged, keys, k + 1, keys[k])
         ELSE MaxKey(merged, keys, k + 1, best)

\* PrimaryPage that takes the page where the match starts
PrimaryPageOfStart(merged) == IF merged = <<>> THEN 0 ELSE merged[1].pageIndex

PrimaryPage(merged) ==
    LET keys == PageKeys(merged, 1, <<>>)
    IN  IF keys = <<>> THEN 0 ELSE MaxKey(merged, keys, 2, keys[1])

\* WordSpan that reads the map at doc_end_char, one past the run
WordSpanEndExclusive(c2w, doc_start_char, doc_end_char) ==
    IF IndexOk(c2w, doc_start_char) /\ IndexOk(c2w, doc_end_char)
    THEN [ok |-> TRUE,
          start_word_idx |-> PyItem(c2w, doc_start_char),
          end_word_idx |-> PyItem(c2w, doc_end_char)]
    ELSE [ok |-> FALSE, start_word_idx |-> -1, end_word_idx |-> -1]

\* WordSpan that leaves out a first word the run covers only in part
WordSpanWholeWordsOnly(c2w, doc_start_char, doc_end_char) ==
    IF IndexOk(c2w, doc_start_char) /\ IndexOk(c2w, doc_end_char - 1)
    THEN [ok |-> TRUE,
          start_word_idx |->
              IF doc_start_char > 0
                 /\ PyItem(c2w, doc_start_char - 1) = PyItem(c2w, doc_start_char)
              THEN PyItem(c2w, doc_start_char) + 1
              ELSE PyItem(c2w, doc_start_char),
          end_word_idx |-> PyItem(c2w, doc_end_char - 1)]
    ELSE [ok |-> FALSE, start_word_idx |-> -1, end_word_idx |-> -1]

\* the try block: the words that own the first and the last character of the
\* run [doc_start_char, doc_end_char)
WordSpan(c2w, doc_start_char, doc_end_char) ==
    IF IndexOk(c2w, doc_start_char) /\ IndexOk(c2w, doc_end_char - 1)
    THEN [ok |-> TRUE,
          start_word_idx |-> PyItem(c2w, doc_start_char),
          end_word_idx |-> PyItem(c2w, doc_end_char - 1)]
    ELSE [ok |-> FALSE, start_word_idx |-> -1, end_word_idx |-> -1]

\* what one pass of the loop body leaves behind: where it ended (outcome),
\* its local variables, and the ChunkHighlight it appended (hl: 0 or 1 item)
Skipped(chunk_id, raw_content, outcome, size) ==
    [chunk_id |-> chunk_id, raw_content |-> raw_content, outcome |-> outcome,
     size |-> size, a |-> -1, start_word_idx |-> -1, end_word_idx |-> -1,
     word_areas |-> <<>>, hl |-> <<>>]

\* one pass of the loop body of find_all_highlights over the index idx of the
\* session whose document is file
ProcessChunkOf(file, idx, chunk) ==
    LET chunk_id == Get(chunk, "chunk_id", Get(chunk, "id", "unknown"))
        raw_content == Get(chunk, "content", Get(chunk, "text", <<>>))
        chunk_skeleton == _make_skeleton_segment(raw_content)
        match == find_longest_match(idx.doc_skeleton, chunk_skeleton)
        doc_start_char == match.a
        doc_end_char == match.a + match.size
        span == WordSpan(idx.char_to_word_idx, doc_start_char, doc_end_char)
    IN  IF raw_content = <<>> THEN Skipped(chunk_id, raw_content, "empty", 0)
        ELSE IF Len(chunk_skeleton) < MIN_CHUNK_SKELETON
        THEN Skipped(chunk_id, raw_content, "short", 0)
        ELSE IF match.size < MIN_MATCH_SIZE
        THEN Skipped(chunk_id, raw_content, "nomatch", match.size)
        ELSE IF ~ span.ok
        THEN Skipped(chunk_id, raw_content, "indexerror", match.size)
        ELSE
        LET start_word_idx == span.start_word_idx
            end_word_idx == span.end_word_idx
            matched_global_words == PySlice(idx.global_words, start_word_idx, end_word_idx + 1)
            areas == _words_to_areas(file, matched_global_words)
            merged_areas == LR_merge_areas(areas)
            primary_page == PrimaryPage(merged_areas)
        IN  IF matched_global_words = <<>>
            THEN Skipped(chunk_id, raw_content, "nowords", match.size)
            ELSE [chunk_id |-> chunk_id, raw_content |-> raw_content,
                  outcome |-> "matched", size |-> match.size, a |-> match.a,
                  start_word_idx |-> start_word_idx, end_word_idx |-> end_word_idx,
                  word_areas |-> areas,
                  hl |-> << [chunkId |-> chunk_id, pageIndex |-> primary_page,
                             text |-> raw_content, areas |-> merged_areas] >>]

\* the pass of the session under observation
ProcessChunk(chunk) ==
    ProcessChunkOf(pdf, [global_words |-> global_words, doc_skeleton |-> doc_skeleton,
                         char_to_word_idx |-> char_to_word_idx], chunk)

\* Collect that stops at the first chunk that produced no highlight, as a
\* loop would that left on a failure instead of continuing
RECURSIVE CollectUntilFailure(_, _)
CollectUntilFailure(tr, k) ==
    IF k > Len(tr) \/ tr[k].hl = <<>> THEN <<>>
    ELSE tr[k].hl \o CollectUntilFailure(tr, k + 1)

\* Collect that puts what a later pass appended first
RECURSIVE CollectReversed(_, _)
CollectReversed(tr, k) ==
    IF k > Len(tr) THEN <<>> ELSE CollectReversed(tr, k + 1) \o tr[k].hl

\* results after the loop: what each pass appended, in chunk order
RECURSIVE Collect(_, _)
Collect(tr, k) == IF k > Len(tr) THEN <<>> ELSE tr[k].hl \o Collect(tr, k + 1)

find_all_highlights(chunk_list) ==
    /\ doc = "open"
    /\ calls < CallsPerSession
    /\ calls' = calls + 1
    /\ chunks' = chunk_list
    /\ LET tr == [k \in 1..Len(chunk_list) |-> ProcessChunk(chunk_list[k])]
       IN  /\ trace' = tr
           /\ results' = Collect(tr, 1)
    /\ UNCHANGED <<pdf, doc, global_words, doc_skeleton, char_to_word_idx, mergeVars, auxVars>>

\* LightRAGHighlighter.close: "if self.doc" is false for a document of no
\* pages, which is then left open
close ==
    /\ doc = "open"
    /\ doc' = IF Len(pdf) > 0 THEN "closed" ELSE "open"
    /\ UNCHANGED <<pdf, global_words, doc_skeleton, char_to_word_idx,
                   chunks, results, trace, calls, mergeVars, auxVars>>

----------------------------------------------------------------------------
(* The session: __init__ over some PDF, then any calls, then close *)

\* no harness has run
NormIdle == norm = [who |-> "none", s |-> <<>>, once |-> <<>>, twice |-> <<>>]

\* no EnhancedPDFHighlighter has been constructed
EnhIdle ==
    enh = [doc |-> "None", pages_content |-> <<>>, pages_rects |-> <<>>,
           chunks |-> <<>>, results |-> <<>>, calls |-> 0]

\* _find_text_bbox_in_pdf has not been called
RagIdle ==
    rag = [search_text |-> <<>>, page_num |-> 0, outcome |-> "none",
           matched_bboxes |-> <<>>, returned |-> <<>>, leaked |-> 0, open_handles |-> 0]

\* no highlighter object is under observation
LifeIdle ==
    life = [cls |-> "none", npages |-> 0, fault |-> "none", doc |-> "None",
            handle |-> "none", indexed |-> 0, usable |-> FALSE, error |-> "none",
            close_calls |-> 0, doc_closes |-> 0, wrapper |-> "none", single |-> "none"]

\* no pdf_highlighter.PDFHighlighter has been constructed
PhIdle ==
    phs = [doc |-> "None", text_blocks |-> <<>>, chunks |-> <<>>, highlights |-> <<>>,
          trace |-> <<>>, calls |-> 0]

\* no highlight.PDFHighlighter has been constructed
HlNone ==
    [cls |-> "none", doc |-> "None", pages_content |-> <<>>, pages_rects |-> <<>>,
     chunks |-> <<>>, results |-> <<>>, calls |-> 0]

HlIdle == hls = HlNone

\* _split_into_segments has not been called
SegIdle ==
    split = [pc |-> "idle", words |-> <<>>, window_size |-> 0, overlap |-> 0,
           i |-> 0, segments |-> <<>>]

\* no session of the pair has been constructed
TwoIdle == two = <<>>

MoreIdle == PhIdle /\ HlIdle /\ SegIdle /\ TwoIdle

AuxIdle == NormIdle /\ EnhIdle /\ RagIdle /\ LifeIdle /\ MoreIdle

Init ==
    /\ pdf \in PDFs
    /\ doc = "None"
    /\ global_words = <<>>
    /\ doc_skeleton = <<>>
    /\ char_to_word_idx = <<>>
    /\ chunks = <<>>
    /\ results = <<>>
    /\ trace = <<>>
    /\ calls = 0
    /\ mAreas = <<>>
    /\ mMerged = <<>>
    /\ mWho = "none"
    /\ AuxIdle

Next ==
    \/ _load_pdf
    \/ \E chunk_list \in ChunkLists : find_all_highlights(chunk_list)
    \/ close

Spec == Init /\ [][Next]_vars

----------------------------------------------------------------------------
(* The mergers as pure functions: every list of up to MaxAreas areas of     *)
(* AreaSet is handed to each of the four mergers.                           *)

Area(p, l, t, w, h) == [pageIndex |-> p, left |-> l, top |-> t, width |-> w, height |-> h]

AreaSet ==
    { Area(0, 1000, 800, 800, 120),    \* a word: left 10 %, right 18 %, top 8 %
      Area(0, 2000, 800, 800, 120),    \* 2 % to its right
      Area(0, 2200, 950, 800, 120),    \* 4 % to its right, 1.5 % lower
      Area(0, 2800, 824, 800, 176),    \* 10 % to its right, 0.24 % lower, taller
      Area(0, 3800, 800, 800, 120),    \* 20 % to its right
      Area(0, 3801, 803, 800, 120),    \* 20.01 % to its right, 0.03 % lower
      Area(0, 1000, 920, 800, 120),    \* directly below it
      Area(0, 9000, 1000, 1000, 120),  \* 2 % lower, ends at the right edge
      Area(1, 1000, 800, 800, 120),    \* the same box on the next page
      Area(1, 2000, 800, 800, 120) }

AreaLists == SeqsUpTo(AreaSet, MaxAreas)

MergeInit ==
    /\ mAreas \in AreaLists
    /\ mMerged = <<>>
    /\ mWho = "none"
    /\ pdf = <<>>
    /\ doc = "None"
    /\ global_words = <<>>
    /\ doc_skeleton = <<>>
    /\ char_to_word_idx = <<>>
    /\ chunks = <<>>
    /\ results = <<>>
    /\ trace = <<>>
    /\ calls = 0
    /\ AuxIdle

MergeLightRAG ==
    /\ mWho = "none"
    /\ mMerged' = LR_merge_areas(mAreas)
    /\ mWho' = "lightrag"
    /\ UNCHANGED <<mAreas, sessionVars, auxVars>>

MergeEnhanced ==
    /\ mWho = "none"
    /\ mMerged' = EN_merge_areas(mAreas)
    /\ mWho' = "enhanced"
    /\ UNCHANGED <<mAreas, sessionVars, auxVars>>

MergeHighlight ==
    /\ mWho = "none"
    /\ mMerged' = HL_merge_areas(mAreas)
    /\ mWho' = "highlight"
    /\ UNCHANGED <<mAreas, sessionVars, auxVars>>

MergeAdjacent ==
    /\ mWho = "none"
    /\ mMerged' = PH_merge_adjacent_areas(mAreas)
    /\ mWho' = "pdf"
    /\ UNCHANGED <<mAreas, sessionVars, auxVars>>

MergeNext == MergeLightRAG \/ MergeEnhanced \/ MergeHighlight \/ MergeAdjacent

MergeSpec == MergeInit /\ [][MergeNext]_vars

----------------------------------------------------------------------------
(* The text normalisers as pure functions: every string of up to MaxNormLen *)
(* characters of NormAlphabet is handed to each normaliser, once and twice. *)
(* "ZWSP" is U+200B, "SHY" is U+00AD, "BOM" is U+FEFF, "NBSP" is U+00A0.    *)

MaxNormLen == 3

NormAlphabet == {"F", " ", "\n", ".", "ZWSP", "SHY"}

NormInputs == SeqsUpTo(NormAlphabet, MaxNormLen)

\* str.lower()
Lower(text) == [i \in 1..Len(text) |-> LowerChar(text[i])]

\* re.sub(r'\s+', ' ', text)
RECURSIVE CollapseFrom(_, _)
CollapseFrom(text, i) ==
    IF i > Len(text) THEN <<>>
    ELSE IF text[i] \in Whitespace
         THEN IF i > 1 /\ text[i - 1] \in Whitespace
              THEN CollapseFrom(text, i + 1)
              ELSE <<" ">> \o CollapseFrom(text, i + 1)
         ELSE <<text[i]>> \o CollapseFrom(text, i + 1)

CollapseWhitespace(text) == CollapseFrom(text, 1)

\* re.sub(r'[\n\r\t]', ' ', text)
ControlToSpace(text) ==
    [i \in 1..Len(text) |-> IF text[i] \in {"\n", "\r", "\t"} THEN " " ELSE text[i]]

\* str.strip()
Strip(text) ==
    LET keep == {i \in 1..Len(text) : text[i] \notin Whitespace}
    IN  IF keep = {} THEN <<>>
        ELSE SubSeq(text, CHOOSE i \in keep : \A j \in keep : i <= j,
                          CHOOSE i \in keep : \A j \in keep : i >= j)

\* PDFHighlighter._normalize_text (pdf_highlighter.py)
_normalize_text(text) == Strip(CollapseWhitespace(Lower(text)))

\* PDFHighlighter._clean_text (highlight.py)
HL_clean_text(text) == Strip(CollapseWhitespace(ControlToSpace(Lower(text))))

\* EnhancedPDFHighlighter._clean_text
EN_clean_text(text) ==
    IF text = <<>> THEN <<>>
    ELSE Strip(CollapseWhitespace(ControlToSpace(Lower(text))))

\* unicodedata.normalize('NFKC', text) on the characters of the model
NFKC(text) == [i \in 1..Len(text) |-> IF text[i] = "NBSP" THEN " " ELSE text[i]]

\* the characters of [\u200b-\u200f\u2060\ufeff] in the model
Invisible == {"ZWSP", "BOM"}

Punctuation == {",", ".", ":", ";", "!", "?"}

\* first position from i on that holds no whitespace (Len(text) + 1 if none)
SkipWhitespace(text, i) ==
    LET rest == {k \in i..Len(text) : text[k] \notin Whitespace}
    IN  IF rest = {} THEN Len(text) + 1 ELSE CHOOSE k \in rest : \A l \in rest : k <= l

\* re.sub(r'\s*([,.:;!?])\s*', r'\1 ', text), scanning from position i
RECURSIVE PunctFrom(_, _)
PunctFrom(text, i) ==
    IF i > Len(text) THEN <<>>
    ELSE LET j == SkipWhitespace(text, i)
         IN  IF j <= Len(text) /\ text[j] \in Punctuation
             THEN <<text[j], " ">> \o PunctFrom(text, SkipWhitespace(text, j + 1))
             ELSE <<text[i]>> \o PunctFrom(text, i + 1)

\* RagService._clean_text_for_matching
_clean_text_for_matching(text) ==
    IF text = <<>> THEN <<>>
    ELSE LET t1 == NFKC(text)
             t2 == CollapseWhitespace(t1)
             t3 == SelectSeq(t2, LAMBDA c : c \notin Invisible)
             t4 == Strip(t3)
             t5 == PunctFrom(t4, 1)
             t6 == SelectSeq(t5, LAMBDA c : c \notin {"SHY", "BOM"})
         IN  Lower(t6)

NormInit ==
    /\ norm \in {[who |-> "none", s |-> t, once |-> <<>>, twice |-> <<>>] : t \in NormInputs}
    /\ pdf = <<>>
    /\ doc = "None"
    /\ global_words = <<>>
    /\ doc_skeleton = <<>>
    /\ char_to_word_idx = <<>>
    /\ chunks = <<>>
    /\ results = <<>>
    /\ trace = <<>>
    /\ calls = 0
    /\ mAreas = <<>>
    /\ mMerged = <<>>
    /\ mWho = "none"
    /\ EnhIdle
    /\ RagIdle
    /\ LifeIdle
    /\ MoreIdle

NormSkeleton ==
    /\ norm.who = "none"
    /\ norm' = [who |-> "_make_skeleton_segment", s |-> norm.s,
                once |-> _make_skeleton_segment(norm.s),
                twice |-> _make_skeleton_segment(_make_skeleton_segment(norm.s))]
    /\ UNCHANGED <<sessionVars, mergeVars, enh, rag, life, moreVars>>

NormNormalize ==
    /\ norm.who = "none"
    /\ norm' = [who |-> "_normalize_text", s |-> norm.s,
                once |-> _normalize_text(norm.s),
                twice |-> _normalize_text(_normalize_text(norm.s))]
    /\ UNCHANGED <<sessionVars, mergeVars, enh, rag, life, moreVars>>

NormCleanHighlight ==
    /\ norm.who = "none"
    /\ norm' = [who |-> "highlight._clean_text", s |-> norm.s,
                once |-> HL_clean_text(norm.s),
                twice |-> HL_clean_text(HL_clean_text(norm.s))]
    /\ UNCHANGED <<sessionVars, mergeVars, enh, rag, life, moreVars>>

NormCleanEnhanced ==
    /\ norm.who = "none"
    /\ norm' = [who |-> "enhanced._clean_text", s |-> norm.s,
                once |-> EN_clean_text(norm.s),
                twice |-> EN_clean_text(EN_clean_text(norm.s))]
    /\ UNCHANGED <<sessionVars, mergeVars, enh, rag, life, moreVars>>

NormCleanMatching ==
    /\ norm.who = "none"
    /\ norm' = [who |-> "_clean_text_for_matching", s |-> norm.s,
                once |-> _clean_text_for_matching(norm.s),
                twice |-> _clean_text_for_matching(_clean_text_for_matching(norm.s))]
    /\ UNCHANGED <<sessionVars, mergeVars, enh, rag, life, moreVars>>

NormNext ==
    \/ NormSkeleton
    \/ NormNormalize
    \/ NormCleanHighlight
    \/ NormCleanEnhanced
    \/ NormCleanMatching

NormSpec == NormInit /\ [][NormNext]_vars

----------------------------------------------------------------------------
(* EnhancedPDFHighlighter: a session over a PDF whose page tables are       *)
(* loaded on demand.  A dict is a function on the set of its keys.          *)

MaxEnhCalls == 2

EnhPDFs == SeqsUpTo({PageA, PageB, PageD}, MaxPages)

EChunkA == [id |-> "a", text |-> <<"H", "e", "l", "l", "o", " ", "w", "o", "r", "l", "d",
                                   " ", "f", "o", "o", " ", "b", "a", "r">>]
EChunkB == [id |-> "b", text |-> <<"H", "e", "l", "l", "o", " ", "w", "o", "r", "l", "d",
                                   " ", "b", "a", "z", " ", "q", "u", "x">>]
\* the text of EChunkA followed by the text of EChunkB: eight tokens
EChunkSpan == [id |-> "ab", text |-> EChunkA.text \o SP \o EChunkB.text]
EChunkEmpty == [id |-> "e", text |-> <<>>]

WithPage(chunk, page) == [id |-> chunk.id, text |-> chunk.text, page |-> page]

\* the chunks with no hint, with hints inside the document and with hints
\* 0, -1 and 3 (outside a document of one or two pages)
EnhChunks ==
    {EChunkA, EChunkB, EChunkSpan, EChunkEmpty}
    \cup {WithPage(EChunkA, h) : h \in {-1, 0, 1, 2, 3}}
    \cup {WithPage(EChunkB, 3)}

\* the calls of the model pass no chunk or one chunk
EnhChunkLists == {<<>>} \cup {<<c>> : c \in EnhChunks}

\* d[key] = value on a dict
DictPut(d, key, value) ==
    [k \in (DOMAIN d) \cup {key} |-> IF k = key THEN value ELSE d[k]]

\* " ".join(texts)
RECURSIVE JoinTexts(_, _)
JoinTexts(words, k) ==
    IF k > Len(words) THEN <<>>
    ELSE IF k = Len(words) THEN words[k][5]
    ELSE words[k][5] \o SP \o JoinTexts(words, k + 1)

\* _load_page_data: the cache after the call (both tables get the page when
\* it was not cached)
EN_load_page_data(file, cache, page_idx) ==
    IF page_idx < 0 \/ page_idx >= Len(file) THEN cache
    ELSE IF page_idx \in DOMAIN cache.pages_content THEN cache
    ELSE LET words == file[page_idx + 1].words
         IN  [pages_rects |-> DictPut(cache.pages_rects, page_idx, words),
              pages_content |-> DictPut(cache.pages_content, page_idx,
                                        EN_clean_text(JoinTexts(words, 1)))]

\* str.split() of a cleaned text: the maximal runs without whitespace
RECURSIVE SplitFrom(_, _, _)
SplitFrom(text, i, token) ==
    IF i > Len(text) THEN (IF token = <<>> THEN <<>> ELSE <<token>>)
    ELSE IF text[i] \in Whitespace
         THEN (IF token = <<>> THEN <<>> ELSE <<token>>) \o SplitFrom(text, i + 1, <<>>)
         ELSE SplitFrom(text, i + 1, Append(token, text[i]))

Split(text) == SplitFrom(text, 1, <<>>)

EN_WINDOW == 15
EN_OVERLAP == 10
EN_MIN_SEGMENT == 3

\* the segments of the token list: windows of 15 tokens every 5 tokens, kept
\* when they have at least 3 tokens
RECURSIVE EN_Segments(_, _)
EN_Segments(chunk_tokens, i) ==
    IF i >= Len(chunk_tokens) THEN <<>>
    ELSE LET seg == PySlice(chunk_tokens, i, i + EN_WINDOW)
         IN  (IF Len(seg) >= EN_MIN_SEGMENT THEN <<seg>> ELSE <<>>)
             \o EN_Segments(chunk_tokens, i + (EN_WINDOW - EN_OVERLAP))

\* a in b on strings
IsSubstring(a, b) ==
    \E o \in 0..(Len(b) - Len(a)) : \A d \in 1..Len(a) : b[o + d] = a[d]

\* the word comparison of the window scan
EN_WordMatches(word_pdf, target) ==
    word_pdf = target \/ IsSubstring(target, word_pdf) \/ IsSubstring(word_pdf, target)

\* match_count / len(seg_tokens) >= 0.7 for the window at 0-based word i
EN_WindowMatches(p_words, seg_tokens, i) ==
    LET match_count ==
            Cardinality({j \in 0..(Len(seg_tokens) - 1) :
                EN_WordMatches(EN_clean_text(p_words[i + j + 1][5]), seg_tokens[j + 1])})
    IN  10 * match_count >= 7 * Len(seg_tokens)

\* the first matching window of the page, -1 if there is none
EN_FirstWindow(p_words, seg_tokens) ==
    LET hits == {i \in 0..(Len(p_words) - Len(seg_tokens)) :
                    EN_WindowMatches(p_words, seg_tokens, i)}
    IN  IF hits = {} THEN -1 ELSE CHOOSE i \in hits : \A j \in hits : i <= j

\* the loop over search_pages for one segment; st holds the cache and
\* found_areas_raw
RECURSIVE EN_SearchPages(_, _, _, _, _)
EN_SearchPages(file, st, seg_tokens, search_pages, k) ==
    IF k > Len(search_pages) THEN st
    ELSE LET p_idx == search_pages[k]
         IN  IF p_idx < 0 \/ p_idx >= Len(file)
             THEN EN_SearchPages(file, st, seg_tokens, search_pages, k + 1)
             ELSE LET cache == EN_load_page_data(file, st.cache, p_idx)
                      p_content == cache.pages_content[p_idx]
                      p_words == cache.pages_rects[p_idx]
                      loaded == [cache |-> cache, found |-> st.found]
                  IN  IF p_content = <<>>
                      THEN EN_SearchPages(file, loaded, seg_tokens, search_pages, k + 1)
                      ELSE LET i == EN_FirstWindow(p_words, seg_tokens)
                           IN  IF i = -1
                               THEN EN_SearchPages(file, loaded, seg_tokens,
                                                   search_pages, k + 1)
                               ELSE [cache |-> cache,
                                     found |-> st.found \o
                                         [n \in 1..Len(seg_tokens) |->
                                             [page |-> p_idx, w |-> p_words[i + n]]]]

RECURSIVE EN_SearchSegments(_, _, _, _, _)
EN_SearchSegments(file, st, segments, search_pages, n) ==
    IF n > Len(segments) THEN st
    ELSE EN_SearchSegments(file,
                           EN_SearchPages(file, st, segments[n], search_pages, 1),
                           segments, search_pages, n + 1)

\* search_pages of a chunk: the hinted page and its neighbours, or every
\* page
EN_search_pages(file, chunk) ==
    IF "page" \in DOMAIN chunk
    THEN LET hint_page == chunk.page
             p_idx == IF hint_page > 0 THEN hint_page - 1 ELSE 0
         IN  <<p_idx>>
             \o (IF p_idx + 1 < Len(file) THEN <<p_idx + 1>> ELSE <<>>)
             \o (IF p_idx - 1 >= 0 THEN <<p_idx - 1>> ELSE <<>>)
    ELSE [q \in 1..Len(file) |-> q - 1]

\* the HighlightArea of one found rect, in percent of its page
EN_RectToArea(file, p_idx, rect) ==
    LET w == file[p_idx + 1].width
        h == file[p_idx + 1].height
    IN  [pageIndex |-> p_idx,
         left |-> Percent(rect[1], w),
         top |-> Percent(rect[2], h),
         width |-> Percent(rect[3] - rect[1], w),
         height |-> Percent(rect[4] - rect[2], h)]

\* one pass of the loop body of find_all_highlights: the cache after it and
\* the ChunkHighlight it appended, if any
EN_ProcessChunk(file, cache, chunk) ==
    LET chunk_id == Get(chunk, "id", "unknown")
        raw_text == Get(chunk, "text", <<>>)
        chunk_tokens == Split(EN_clean_text(raw_text))
    IN  IF raw_text = <<>> \/ chunk_tokens = <<>> THEN [cache |-> cache, hl |-> <<>>]
        ELSE LET st == EN_SearchSegments(file, [cache |-> cache, found |-> <<>>],
                                         EN_Segments(chunk_tokens, 0),
                                         EN_search_pages(file, chunk), 1)
                 final_areas == [n \in 1..Len(st.found) |->
                                    EN_RectToArea(file, st.found[n].page, st.found[n].w)]
                 merged == EN_merge_areas(final_areas)
             IN  IF st.found = <<>> THEN [cache |-> st.cache, hl |-> <<>>]
                 ELSE [cache |-> st.cache,
                       hl |-> <<[chunkId |-> chunk_id, pageIndex |-> PrimaryPage(merged),
                                 text |-> raw_text, areas |-> merged]>>]

RECURSIVE EN_Loop(_, _, _, _)
EN_Loop(file, st, chunk_list, k) ==
    IF k > Len(chunk_list) THEN st
    ELSE LET r == EN_ProcessChunk(file, st.cache, chunk_list[k])
         IN  EN_Loop(file, [cache |-> r.cache, results |-> st.results \o r.hl],
                     chunk_list, k + 1)

EnhInit ==
    /\ pdf \in EnhPDFs
    /\ EnhIdle
    /\ NormIdle
    /\ RagIdle
    /\ LifeIdle
    /\ MoreIdle
    /\ doc = "None"
    /\ global_words = <<>>
    /\ doc_skeleton = <<>>
    /\ char_to_word_idx = <<>>
    /\ chunks = <<>>
    /\ results = <<>>
    /\ trace = <<>>
    /\ calls = 0
    /\ mAreas = <<>>
    /\ mMerged = <<>>
    /\ mWho = "none"

\* EnhancedPDFHighlighter.__init__ -> _open_pdf
EnhOpen ==
    /\ enh.doc = "None"
    /\ enh' = [enh EXCEPT !.doc = "open"]
    /\ UNCHANGED <<sessionVars, mergeVars, norm, rag, life, moreVars>>

\* EnhancedPDFHighlighter.find_all_highlights
EnhFind(chunk_list) ==
    /\ enh.doc = "open"
    /\ enh.calls < MaxEnhCalls
    /\ LET st == IF Len(pdf) = 0
                 THEN [cache |-> [pages_content |-> enh.pages_content,
                                  pages_rects |-> enh.pages_rects],
                       results |-> <<>>]
                 ELSE EN_Loop(pdf, [cache |-> [pages_content |-> enh.pages_content,
                                               pages_rects |-> enh.pages_rects],
                                    results |-> <<>>], chunk_list, 1)
       IN  enh' = [doc |-> "open",
                   pages_content |-> st.cache.pages_content,
                   pages_rects |-> st.cache.pages_rects,
                   chunks |-> chunk_list, results |-> st.results,
                   calls |-> enh.calls + 1]
    /\ UNCHANGED <<sessionVars, mergeVars, norm, rag, life, moreVars>>

\* EnhancedPDFHighlighter.close: "if self.doc" is false for a document of no
\* pages, which is then left open
EnhClose ==
    /\ enh.doc = "open"
    /\ enh' = [enh EXCEPT !.doc = IF Len(pdf) > 0 THEN "closed" ELSE "open"]
    /\ UNCHANGED <<sessionVars, mergeVars, norm, rag, life, moreVars>>

EnhNext ==
    \/ EnhOpen
    \/ \E chunk_list \in EnhChunkLists : EnhFind(chunk_list)
    \/ EnhClose

EnhSpec == EnhInit /\ [][EnhNext]_vars

----------------------------------------------------------------------------
(* RagService._find_text_bbox_in_pdf: the boxes of one page for one text *)

MaxOpenHandles == 2   \* documents left open that the model counts

\* one item of page.get_text("blocks"): (x0, y0, x1, y1, text, ...)
Block(x0, y0, x1, y1, text) == <<x0, y0, x1, y1, text>>

\* a page of two text blocks, "Hello world" and "foo bar"
BPageTwo ==
    [width |-> 500, height |-> 1250,
     blocks |-> << Block(50, 100, 250, 120, tHello \o SP \o tWorld),
                   Block(50, 130, 250, 150, tFoo \o SP \o tBar) >>]

\* a page whose only block is whitespace
BPageBlank ==
    [width |-> 500, height |-> 1250, blocks |-> << Block(50, 100, 250, 120, <<" ", "\n">>) >>]

\* a page of six blocks "foo bar", one under the other
BPageSix ==
    [width |-> 500, height |-> 1250,
     blocks |-> [k \in 1..6 |-> Block(50, 100 * k, 250, 100 * k + 20, tFoo \o SP \o tBar)]]

\* a page without text
BPageNone == [width |-> 500, height |-> 1250, blocks |-> <<>>]

BlockPDFs == SeqsUpTo({BPageTwo, BPageBlank, BPageSix, BPageNone}, MaxPages)

\* "Hello world" (a block), "baz qux" (no block), "world baz" (shares one
\* word of three with "Hello world"), and the empty text
RagTexts == {tHello \o SP \o tWorld, tBaz \o SP \o tQux, tWorld \o SP \o tBaz, <<>>}

\* what the library does in this call: nothing unusual, fitz.open raises,
\* or page.get_text raises
RagFaults == {"none", "open", "read"}

RAG_SEARCH_PREFIX == 300    \* search_text[:300]
RAG_FUZZY_PREFIX == 150     \* the first 150 characters are compared
RAG_FALLBACK_BLOCKS == 5    \* all_text_blocks[:5]

\* set(text.split())
WordSet(text) == {Split(text)[i] : i \in 1..Len(Split(text))}

\* RagService._fuzzy_match with the default threshold 0.3
_fuzzy_match(text1, text2) ==
    IF text1 = <<>> \/ text2 = <<>> THEN FALSE
    ELSE LET words1 == WordSet(text1)
             words2 == WordSet(text2)
         IN  IF words1 = {} \/ words2 = {} THEN FALSE
             ELSE 10 * Cardinality(words1 \cap words2)
                     >= 3 * Cardinality(words1 \cup words2)

\* the loop over the blocks from block k on: all_text_blocks and
\* matched_bboxes
RECURSIVE RagScanBlocks(_, _, _, _)
RagScanBlocks(page, page_num, search_cleaned, k) ==
    IF k > Len(page.blocks) THEN [all_text_blocks |-> <<>>, matched_bboxes |-> <<>>]
    ELSE LET block == page.blocks[k]
             rest == RagScanBlocks(page, page_num, search_cleaned, k + 1)
             block_text_raw == Strip(block[5])
             block_text_cleaned == _clean_text_for_matching(block_text_raw)
             bbox == [x1 |-> block[1], y1 |-> block[2], x2 |-> block[3], y2 |-> block[4],
                      width |-> page.width, height |-> page.height,
                      pageNumber |-> page_num]
             hit == \/ IsSubstring(search_cleaned, block_text_cleaned)
                    \/ IsSubstring(block_text_cleaned, search_cleaned)
                    \/ _fuzzy_match(PySlice(search_cleaned, 0, RAG_FUZZY_PREFIX),
                                    PySlice(block_text_cleaned, 0, RAG_FUZZY_PREFIX))
         IN  IF block_text_raw = <<>> THEN rest
             ELSE [all_text_blocks |-> <<bbox>> \o rest.all_text_blocks,
                   matched_bboxes |-> (IF hit THEN <<bbox>> ELSE <<>>)
                                      \o rest.matched_bboxes]

\* one call: how it ended, the boxes it matched, the boxes it returned and
\* whether it returned with its document still open (leaked: 0 or 1)
RagLookup(file, search_text, page_num, fault) ==
    IF fault = "open"
    THEN [outcome |-> "error", matched_bboxes |-> <<>>, returned |-> <<>>, leaked |-> 0]
    ELSE IF page_num < 1 \/ page_num > Len(file)
    THEN [outcome |-> "invalid", matched_bboxes |-> <<>>, returned |-> <<>>, leaked |-> 1]
    ELSE IF fault = "read"
    THEN [outcome |-> "error", matched_bboxes |-> <<>>, returned |-> <<>>, leaked |-> 1]
    ELSE LET search_cleaned ==
                 _clean_text_for_matching(PySlice(search_text, 0, RAG_SEARCH_PREFIX))
             scan == RagScanBlocks(file[page_num], page_num, search_cleaned, 1)
         IN  IF scan.matched_bboxes = <<>> /\ scan.all_text_blocks # <<>>
             THEN [outcome |-> "fallback", matched_bboxes |-> <<>>,
                   returned |-> PySlice(scan.all_text_blocks, 0, RAG_FALLBACK_BLOCKS),
                   leaked |-> 0]
             ELSE [outcome |-> IF scan.matched_bboxes = <<>> THEN "nomatch" ELSE "matched",
                   matched_bboxes |-> scan.matched_bboxes,
                   returned |-> scan.matched_bboxes, leaked |-> 0]

RagInit ==
    /\ pdf \in BlockPDFs
    /\ RagIdle
    /\ NormIdle
    /\ EnhIdle
    /\ LifeIdle
    /\ MoreIdle
    /\ doc = "None"
    /\ global_words = <<>>
    /\ doc_skeleton = <<>>
    /\ char_to_word_idx = <<>>
    /\ chunks = <<>>
    /\ results = <<>>
    /\ trace = <<>>
    /\ calls = 0
    /\ mAreas = <<>>
    /\ mMerged = <<>>
    /\ mWho = "none"

_find_text_bbox_in_pdf(search_text, page_num, fault) ==
    /\ LET r == RagLookup(pdf, search_text, page_num, fault)
       IN  /\ rag.open_handles + r.leaked <= MaxOpenHandles
           /\ rag' = [search_text |-> search_text, page_num |-> page_num,
                      outcome |-> r.outcome, matched_bboxes |-> r.matched_bboxes,
                      returned |-> r.returned, leaked |-> r.leaked,
                      open_handles |-> rag.open_handles + r.leaked]
    /\ UNCHANGED <<sessionVars, mergeVars, norm, enh, life, moreVars>>

RagNext ==
    \E search_text \in RagTexts : \E page_num \in 0..(MaxPages + 1) :
        \E fault \in RagFaults : _find_text_bbox_in_pdf(search_text, page_num, fault)

RagSpec == RagInit /\ [][RagNext]_vars

\* the service keeps answering requests
RagLiveSpec == RagSpec /\ WF_vars(RagNext)

----------------------------------------------------------------------------
(* One highlighter object: construction, close calls, and the wrapper     *)
(* extract_highlights_from_pdf.  life.doc is the attribute self.doc        *)
(* ("None" or "Document"), life.handle the state of the document behind    *)
(* it, life.doc_closes the number of Document.close() calls made, and      *)
(* life.error whether the last call on the object raised.                  *)

MaxCloseCalls == 3   \* close() calls on one object
MaxSegments == 5    \* segments appended in one call of _split_into_segments

LifeClasses == {"LightRAGHighlighter", "EnhancedPDFHighlighter", "PDFHighlighter"}

\* what the library does during construction: nothing unusual, fitz.open
\* raises, or the extraction of page k raises
LoadFaults == {"none", "open", "parse"}

\* what the library does with a closed Document: it raises, or it answers as
\* if the document were open
ClosedDocument == {"raises", "tolerates"}

\* _load_pdf that logs the error and returns instead of raising it again
LoadOutcomeSwallowed(cls, n, fault, k) ==
    IF fault = "open"
    THEN [doc |-> "None", handle |-> "none", indexed |-> 0, usable |-> TRUE,
          error |-> "none"]
    ELSE IF fault = "parse"
    THEN [doc |-> "Document", handle |-> "open", indexed |-> k, usable |-> TRUE,
          error |-> "none"]
    ELSE [doc |-> "Document", handle |-> "open",
          indexed |-> IF cls = "EnhancedPDFHighlighter" THEN 0 ELSE n,
          usable |-> TRUE, error |-> "none"]

\* __init__ -> _load_pdf (_open_pdf) over a file of n pages: the fields of
\* the object, whether the caller gets an object, whether the call raised.
\* EnhancedPDFHighlighter reads no page in its constructor.
LoadOutcome(cls, n, fault, k) ==
    IF fault = "open"
    THEN [doc |-> "None", handle |-> "none", indexed |-> 0, usable |-> FALSE,
          error |-> "raised"]
    ELSE IF fault = "parse"
    THEN [doc |-> "Document", handle |-> "open", indexed |-> k, usable |-> FALSE,
          error |-> "raised"]
    ELSE [doc |-> "Document", handle |-> "open",
          indexed |-> IF cls = "EnhancedPDFHighlighter" THEN 0 ELSE n,
          usable |-> TRUE, error |-> "none"]

\* "if self.doc": None is false, a Document is as true as its len() is not
\* zero, and len() of a closed Document is up to the library
DocTruth(st, lib) ==
    IF st.doc = "None" THEN "false"
    ELSE IF st.handle = "closed" /\ lib = "raises" THEN "raises"
    ELSE IF st.npages > 0 THEN "true" ELSE "false"

\* close(): "if self.doc: self.doc.close()", and PDFHighlighter also sets
\* self.doc = None
CloseOutcome(st, lib) ==
    LET truth == DocTruth(st, lib)
    IN  IF truth = "raises"
        THEN [st EXCEPT !.close_calls = @ + 1, !.error = "raised"]
        ELSE IF truth = "false"
        THEN [st EXCEPT !.close_calls = @ + 1, !.error = "none"]
        ELSE [st EXCEPT !.close_calls = @ + 1, !.error = "none",
                        !.handle = "closed", !.doc_closes = @ + 1,
                        !.doc = IF st.cls = "PDFHighlighter" THEN "None" ELSE @]

LifeInit ==
    /\ pdf \in PDFs
    /\ LifeIdle
    /\ MoreIdle
    /\ NormIdle
    /\ EnhIdle
    /\ RagIdle
    /\ doc = "None"
    /\ global_words = <<>>
    /\ doc_skeleton = <<>>
    /\ char_to_word_idx = <<>>
    /\ chunks = <<>>
    /\ results = <<>>
    /\ trace = <<>>
    /\ calls = 0
    /\ mAreas = <<>>
    /\ mMerged = <<>>
    /\ mWho = "none"

\* cls(pdf_path)
Construct(cls, fault, k) ==
    /\ life.cls = "none"
    /\ fault = "parse" => (cls # "EnhancedPDFHighlighter" /\ k < Len(pdf))
    /\ fault # "parse" => k = 0
    /\ LET c == LoadOutcome(cls, Len(pdf), fault, k)
       IN  life' = [cls |-> cls, npages |-> Len(pdf), fault |-> fault, doc |-> c.doc,
                    handle |-> c.handle, indexed |-> c.indexed, usable |-> c.usable,
                    error |-> c.error, close_calls |-> 0, doc_closes |-> 0,
                    wrapper |-> "none", single |-> "none"]
    /\ UNCHANGED <<sessionVars, mergeVars, norm, enh, rag, moreVars>>

\* highlighter.close(), called explicitly or by __exit__
Close(lib) ==
    /\ life.usable
    /\ life.close_calls < MaxCloseCalls
    /\ life' = CloseOutcome(life, lib)
    /\ UNCHANGED <<sessionVars, mergeVars, norm, enh, rag, moreVars>>

\* extract_highlights_from_pdf(pdf_path, chunks): the with block over a
\* PDFHighlighter inside try/except; an exception of the constructor is
\* logged and answered with an empty highlights list
extract_highlights_from_pdf(fault, k) ==
    /\ life.cls = "none"
    /\ fault = "parse" => k < Len(pdf)
    /\ fault # "parse" => k = 0
    /\ LET c == LoadOutcome("PDFHighlighter", Len(pdf), fault, k)
           st == [cls |-> "PDFHighlighter", npages |-> Len(pdf), fault |-> fault,
                  doc |-> c.doc, handle |-> c.handle, indexed |-> c.indexed,
                  usable |-> FALSE, error |-> c.error, close_calls |-> 0,
                  doc_closes |-> 0, wrapper |-> "empty", single |-> "none"]
       IN  life' = IF c.usable
                   THEN [CloseOutcome(st, "raises") EXCEPT !.wrapper = "highlights"]
                   ELSE st
    /\ UNCHANGED <<sessionVars, mergeVars, norm, enh, rag, moreVars>>

\* the classes whose body defines find_chunk_highlights
DefinesFindChunk == {"PDFHighlighter"}

\* highlighter.find_chunk_highlights(chunk_id, content) inside the with
\* block, as test_highlights_debug.py and test_long_chunks.py call it: the
\* attribute lookup raises AttributeError on a class without the method
LookupSingle ==
    /\ life.usable
    /\ life.handle = "open"
    /\ life.single = "none"
    /\ life' = [life EXCEPT !.single = IF life.cls \in DefinesFindChunk
                                       THEN "returned" ELSE "AttributeError"]
    /\ UNCHANGED <<sessionVars, mergeVars, norm, enh, rag, moreVars>>

LifeNext ==
    \/ \E cls \in LifeClasses : \E fault \in LoadFaults : \E k \in 0..(MaxPages - 1) :
           Construct(cls, fault, k)
    \/ \E lib \in ClosedDocument : Close(lib)
    \/ \E fault \in LoadFaults : \E k \in 0..(MaxPages - 1) :
           extract_highlights_from_pdf(fault, k)
    \/ LookupSingle

LifeSpec == LifeInit /\ [][LifeNext]_vars

----------------------------------------------------------------------------
\* no LightRAGHighlighter session and no merger call is under observation
SessionIdle ==
    /\ doc = "None"
    /\ global_words = <<>>
    /\ doc_skeleton = <<>>
    /\ char_to_word_idx = <<>>
    /\ chunks = <<>>
    /\ results = <<>>
    /\ trace = <<>>
    /\ calls = 0
    /\ mAreas = <<>>
    /\ mMerged = <<>>
    /\ mWho = "none"

----------------------------------------------------------------------------
(* highlight.PDFHighlighter: per-page text and word tables, chunk segments  *)
(* searched as substrings of the page text.  BatchSpec is a caller that     *)
(* uses either this class or LightRAGHighlighter for one session.           *)

HL_WINDOW == 15             \* window_size=15
HL_OVERLAP == 5             \* overlap=5
HL_MIN_SEGMENT_CHARS == 10  \* len(segment) < 10

HlPDFs == SeqsUpTo({PageA, PageB, PageD}, MaxPages)

\* "Hello world foo bar Hello world baz qux Hello world foo bar": twelve
\* tokens, two segments
HChunkLong == [id |-> "long", text |-> EChunkA.text \o SP \o EChunkB.text \o SP \o EChunkA.text]

\* "foo bar": one segment of 7 characters; and a chunk without an id
HlChunks ==
    {EChunkA, EChunkB, EChunkEmpty, HChunkLong,
     [id |-> "short", text |-> tFoo \o SP \o tBar],
     [text |-> EChunkB.text]}

HlChunkLists == SeqsUpTo(HlChunks, MaxChunks)

\* " ".join(tokens) from token k on
RECURSIVE JoinTokens(_, _)
JoinTokens(tokens, k) ==
    IF k > Len(tokens) THEN <<>>
    ELSE IF k = Len(tokens) THEN tokens[k]
    ELSE tokens[k] \o SP \o JoinTokens(tokens, k + 1)

\* words[lo:hi] for any integers lo, hi: a negative index counts from the end
PySliceAny(list, lo, hi) ==
    LET n == Len(list)
        l == IF lo < 0 THEN Max(lo + n, 0) ELSE Min(lo, n)
        h == IF hi < 0 THEN Max(hi + n, 0) ELSE Min(hi, n)
    IN  IF l >= h THEN <<>> ELSE SubSeq(list, l + 1, h)

\* i += window_size, a step that leaves no overlap
SplitAdvanceByWindow(i, window_size, overlap) == i + window_size

\* i += (window_size - overlap)
SplitAdvance(i, window_size, overlap) == i + (window_size - overlap)

\* " ".join(words[i : i + window_size])
SplitSegment(words, i, window_size) ==
    JoinTokens(PySliceAny(words, i, i + window_size), 1)

\* the while loop of _split_into_segments from i on, for window_size >
\* overlap
RECURSIVE HL_SegmentsFrom(_, _, _, _)
HL_SegmentsFrom(words, i, window_size, overlap) ==
    IF ~ (i < Len(words)) THEN <<>>
    ELSE << SplitSegment(words, i, window_size) >>
         \o HL_SegmentsFrom(words, SplitAdvance(i, window_size, overlap),
                            window_size, overlap)

_split_into_segments(text, window_size, overlap) ==
    LET words == Split(text)
    IN  IF words = <<>> THEN <<>> ELSE HL_SegmentsFrom(words, 0, window_size, overlap)

\* _load_pdf: the two tables, page p (1-based) at position p
HL_pages_rects(file) == [p \in 1..Len(file) |-> file[p].words]
HL_pages_content(file) ==
    [p \in 1..Len(file) |-> HL_clean_text(JoinTexts(file[p].words, 1))]

\* the first i of range(len(page_words) - len(segment_tokens) + 1) at which
\* the cleaned page words equal the segment tokens, or -1
HL_FirstMatch(page_words, segment_tokens) ==
    LET hits == {i \in 0..(Len(page_words) - Len(segment_tokens)) :
                    \A j \in 1..Len(segment_tokens) :
                        HL_clean_text(page_words[i + j][5]) = segment_tokens[j]}
    IN  IF hits = {} THEN -1 ELSE CHOOSE i \in hits : \A i2 \in hits : i <= i2

\* the loop over the pages for one segment, from page p (1-based) on: the
\* (page_idx, rect) pairs of the first page on which the segment is a
\* substring of the page text and a run of page words
RECURSIVE HL_SearchPages(_, _, _, _)
HL_SearchPages(st, segment, segment_tokens, p) ==
    IF p > Len(st.pages_content) THEN <<>>
    ELSE IF ~ IsSubstring(segment, st.pages_content[p])
         THEN HL_SearchPages(st, segment, segment_tokens, p + 1)
         ELSE LET page_words == st.pages_rects[p]
                  i == HL_FirstMatch(page_words, segment_tokens)
              IN  IF i < 0 THEN HL_SearchPages(st, segment, segment_tokens, p + 1)
                  ELSE [k \in 1..Len(segment_tokens) |->
                           <<p - 1, SubSeq(page_words[i + k], 1, 4)>>]

\* the loop over the segments from segment n on: found_areas_raw
RECURSIVE HL_SearchSegments(_, _, _)
HL_SearchSegments(st, segments, n) ==
    IF n > Len(segments) THEN <<>>
    ELSE (IF Len(segments[n]) < HL_MIN_SEGMENT_CHARS THEN <<>>
          ELSE HL_SearchPages(st, segments[n], Split(segments[n]), 1))
         \o HL_SearchSegments(st, segments, n + 1)

\* one pass of the loop of find_all_highlights: the ChunkHighlight it
\* appends (hl: 0 or 1 item)
HL_ProcessChunk(file, st, chunk) ==
    LET chunk_id == Get(chunk, "id", "unknown")
        raw_chunk_text == Get(chunk, "text", <<>>)
        clean_chunk == HL_clean_text(raw_chunk_text)
        segments == _split_into_segments(clean_chunk, HL_WINDOW, HL_OVERLAP)
        found_areas_raw == HL_SearchSegments(st, segments, 1)
        final_areas == [k \in 1..Len(found_areas_raw) |->
                           EN_RectToArea(file, found_areas_raw[k][1], found_areas_raw[k][2])]
        merged_areas == HL_merge_areas(final_areas)
        primary_page == PrimaryPage(merged_areas)
    IN  [hl |-> IF raw_chunk_text = <<>> \/ found_areas_raw = <<>> THEN <<>>
                ELSE << [chunkId |-> chunk_id, pageIndex |-> primary_page,
                         text |-> raw_chunk_text, areas |-> merged_areas] >>]

\* the caller constructs a highlight.PDFHighlighter
HlInit ==
    /\ pdf \in HlPDFs
    /\ SessionIdle
    /\ NormIdle /\ EnhIdle /\ RagIdle /\ LifeIdle /\ PhIdle /\ SegIdle /\ TwoIdle
    /\ hls = [HlNone EXCEPT !.cls = "PDFHighlighter"]

\* the caller constructs a LightRAGHighlighter: Init with the class named
LightRAGInit ==
    /\ pdf \in PDFs
    /\ SessionIdle
    /\ NormIdle /\ EnhIdle /\ RagIdle /\ LifeIdle /\ PhIdle /\ SegIdle /\ TwoIdle
    /\ hls = [HlNone EXCEPT !.cls = "LightRAGHighlighter"]

\* highlight.PDFHighlighter.__init__ -> _load_pdf
HlOpen ==
    /\ hls.doc = "None"
    /\ hls' = [hls EXCEPT !.doc = "open",
                          !.pages_content = HL_pages_content(pdf),
                          !.pages_rects = HL_pages_rects(pdf)]
    /\ UNCHANGED <<sessionVars, mergeVars, norm, enh, rag, life, phs, split, two>>

\* highlight.PDFHighlighter.find_all_highlights; "if not self.doc" returns
\* at once for a document of no pages
HlFind(chunk_list) ==
    /\ hls.doc = "open"
    /\ hls.calls < CallsPerSession
    /\ LET tr == [k \in 1..Len(chunk_list) |-> HL_ProcessChunk(pdf, hls, chunk_list[k])]
       IN  hls' = [hls EXCEPT !.chunks = chunk_list,
                              !.results = IF Len(pdf) = 0 THEN <<>> ELSE Collect(tr, 1),
                              !.calls = @ + 1]
    /\ UNCHANGED <<sessionVars, mergeVars, norm, enh, rag, life, phs, split, two>>

\* highlight.PDFHighlighter.close
HlClose ==
    /\ hls.doc = "open"
    /\ hls' = [hls EXCEPT !.doc = IF Len(pdf) > 0 THEN "closed" ELSE "open"]
    /\ UNCHANGED <<sessionVars, mergeVars, norm, enh, rag, life, phs, split, two>>

HlNext ==
    \/ HlOpen
    \/ \E chunk_list \in HlChunkLists : HlFind(chunk_list)
    \/ HlClose

BatchInit == LightRAGInit \/ HlInit

BatchNext ==
    \/ hls.cls = "LightRAGHighlighter" /\ _load_pdf
    \/ hls.cls = "LightRAGHighlighter" /\
           \E chunk_list \in ChunkLists : find_all_highlights(chunk_list)
    \/ hls.cls = "LightRAGHighlighter" /\ close
    \/ hls.cls = "PDFHighlighter" /\ HlOpen
    \/ hls.cls = "PDFHighlighter" /\
           \E chunk_list \in HlChunkLists : HlFind(chunk_list)
    \/ hls.cls = "PDFHighlighter" /\ HlClose

BatchSpec == BatchInit /\ [][BatchNext]_vars

----------------------------------------------------------------------------
(* highlight.PDFHighlighter._split_into_segments, one statement at a time.  *)
(* A pass of the while loop is one step; the call is over at "done".        *)

\* texts of no token (empty, blank) and of one to four tokens
SplitTexts ==
    { <<>>, SP, tFoo, tFoo \o SP \o tBar, tFoo \o <<" ", "\n">> \o tBar \o SP \o tBaz,
      tFoo \o SP \o tBar \o SP \o tBaz \o SP \o tQux }

SplitWindows == 0..3
SplitOverlaps == 0..3

SplitInit ==
    /\ pdf = <<>>
    /\ SessionIdle
    /\ AuxIdle

\* the call, up to the while: words = text.split(); "if not words: return []"
SplitCall(text, window_size, overlap) ==
    /\ split.pc = "idle"
    /\ split' = [pc |-> IF Split(text) = <<>> THEN "done" ELSE "loop",
                 words |-> Split(text), window_size |-> window_size,
                 overlap |-> overlap, i |-> 0, segments |-> <<>>]
    /\ UNCHANGED <<sessionVars, mergeVars, norm, enh, rag, life, phs, hls, two>>

\* one test of "while i < len(words)" and, when it holds, one pass of the
\* body; otherwise "return segments"
SplitStep ==
    /\ split.pc = "loop"
    /\ IF split.i < Len(split.words)
       THEN /\ Len(split.segments) < MaxSegments
            /\ split' = [split EXCEPT
                   !.segments = Append(@, SplitSegment(split.words, split.i,
                                                       split.window_size)),
                   !.i = SplitAdvance(split.i, split.window_size, split.overlap)]
       ELSE split' = [split EXCEPT !.pc = "done"]
    /\ UNCHANGED <<sessionVars, mergeVars, norm, enh, rag, life, phs, hls, two>>

SplitNext ==
    \/ \E text \in SplitTexts : \E window_size \in SplitWindows :
           \E overlap \in SplitOverlaps : SplitCall(text, window_size, overlap)
    \/ SplitStep

SplitSpec == SplitInit /\ [][SplitNext]_vars

\* the call runs on one thread: a pass that can be taken is taken
SplitLiveSpec == SplitSpec /\ WF_vars(SplitStep)

----------------------------------------------------------------------------
(* Two highlighter objects alive at once, as two requests that reach        *)
(* get_references_with_highlights create them.  Every attribute is assigned *)
(* on self in __init__, so each object is one record of two; a step is a    *)
(* whole call of __init__, find_all_highlights or close on one object.      *)

TwoClasses == {"LightRAGHighlighter", "EnhancedPDFHighlighter"}

TwoPDFs == {<<PageA>>, <<PageB>>, <<PageA, PageB>>}

TwoChunkLists == {<<EChunkB, EChunkA>>, <<ChunkLine>>}

\* the attributes __init__ assigns before it opens the document
NewSession(cls, file) ==
    [cls |-> cls, file |-> file, doc |-> "None",
     global_words |-> <<>>, doc_skeleton |-> <<>>, char_to_word_idx |-> <<>>,
     pages_content |-> <<>>, pages_rects |-> <<>>,
     chunks |-> <<>>, results |-> <<>>, calls |-> 0, during |-> "None"]

\* the page cache as one dictionary that every object reads: the one the
\* first object fills
SessionCacheOfFirst(t, s) ==
    [pages_content |-> t[1].pages_content, pages_rects |-> t[1].pages_rects]

\* self.pages_content, self.pages_rects of object s
SessionCache(t, s) ==
    [pages_content |-> t[s].pages_content, pages_rects |-> t[s].pages_rects]

\* self.global_words, self.doc_skeleton, self.char_to_word_idx of object s
SessionIndex(t, s) ==
    [global_words |-> t[s].global_words, doc_skeleton |-> t[s].doc_skeleton,
     char_to_word_idx |-> t[s].char_to_word_idx]

TwoInit ==
    /\ pdf = <<>>
    /\ SessionIdle
    /\ NormIdle /\ EnhIdle /\ RagIdle /\ LifeIdle
    /\ PhIdle /\ HlIdle /\ SegIdle
    /\ \E c1 \in TwoClasses, c2 \in TwoClasses : \E f1 \in TwoPDFs, f2 \in TwoPDFs :
           two = <<NewSession(c1, f1), NewSession(c2, f2)>>

\* __init__ of object s: _load_pdf builds the index, _open_pdf only opens
TwoConstruct(s) ==
    /\ two[s].doc = "None"
    /\ LET idx == IF two[s].cls = "LightRAGHighlighter" THEN BuildIndex(two[s].file)
                  ELSE EmptyIndex
       IN  two' = [two EXCEPT ![s].doc = "open",
                              ![s].global_words = idx.global_words,
                              ![s].doc_skeleton = idx.doc_skeleton,
                              ![s].char_to_word_idx = idx.char_to_word_idx]
    /\ UNCHANGED <<sessionVars, mergeVars, norm, enh, rag, life, phs, hls, split>>

\* find_all_highlights of object s; during records what the other object was
\* when the call ran
TwoFind(s, chunk_list) ==
    /\ two[s].doc = "open"
    /\ two[s].calls < MaxEnhCalls
    /\ LET file == two[s].file
           cache == SessionCache(two, s)
           st == IF Len(file) = 0 THEN [cache |-> cache, results |-> <<>>]
                 ELSE IF two[s].cls = "LightRAGHighlighter"
                 THEN [cache |-> cache,
                       results |-> Collect([k \in 1..Len(chunk_list) |->
                                               ProcessChunkOf(file, SessionIndex(two, s),
                                                              chunk_list[k])], 1)]
                 ELSE EN_Loop(file, [cache |-> cache, results |-> <<>>], chunk_list, 1)
       IN  two' = [two EXCEPT ![s].pages_content = st.cache.pages_content,
                              ![s].pages_rects = st.cache.pages_rects,
                              ![s].chunks = chunk_list,
                              ![s].results = st.results,
                              ![s].calls = @ + 1,
                              ![s].during = two[3 - s].doc]
    /\ UNCHANGED <<sessionVars, mergeVars, norm, enh, rag, life, phs, hls, split>>

\* close of object s: "if self.doc" is false for a document of no pages
TwoClose(s) ==
    /\ two[s].doc = "open"
    /\ two' = [two EXCEPT ![s].doc = IF Len(two[s].file) > 0 THEN "closed" ELSE "open"]
    /\ UNCHANGED <<sessionVars, mergeVars, norm, enh, rag, life, phs, hls, split>>

TwoNext ==
    \E s \in 1..2 :
        \/ TwoConstruct(s)
        \/ \E chunk_list \in TwoChunkLists : TwoFind(s, chunk_list)
        \/ TwoClose(s)

TwoSpec == TwoInit /\ [][TwoNext]_vars

----------------------------------------------------------------------------
(* pdf_highlighter.PDFHighlighter: text blocks, token windows, exact match  *)
(* for short chunks.  A page holds text spans ("blocks" of BlockPDFs).      *)

\* a page of the spans "Foo" and "bar,baz"
BPageWords ==
    [width |-> 500, height |-> 1250,
     blocks |-> << Block(50, 100, 150, 120, tFoo),
                   Block(50, 130, 250, 150, tBar \o <<",">> \o tBaz) >>]

\* one page more than MaxPages, so that a hinted page and its neighbours can
\* leave a page of the file out
PhPDFs == SeqsUpTo({BPageTwo, BPageSix, BPageBlank, BPageWords}, MaxPages + 1)

\* chunk.get("page"): None, or the value of the key
NoHint == [given |-> FALSE, page |-> 0]
Hint(chunk) ==
    IF "page" \in DOMAIN chunk THEN [given |-> TRUE, page |-> chunk.page] ELSE NoHint

PChunk(id, text) == [id |-> id, text |-> text]

\* two tokens; two tokens with a hint; four tokens that are the whole of
\* BPageTwo, without a hint, with hint 1 and with hint 2; five tokens of which the first three
\* are on BPageTwo; three tokens of BPageSix; no text; only a space
PhChunks ==
    { PChunk("two", tFoo \o SP \o tBar),
      WithPage(PChunk("two1", tFoo \o SP \o tBar), 1),
      PChunk("four", tHello \o SP \o tWorld \o SP \o tFoo \o SP \o tBar),
      WithPage(PChunk("four1", tHello \o SP \o tWorld \o SP \o tFoo \o SP \o tBar), 1),
      WithPage(PChunk("four2", tHello \o SP \o tWorld \o SP \o tFoo \o SP \o tBar), 2),
      PChunk("five", tHello \o SP \o tWorld \o SP \o tFoo \o SP \o tQux \o SP \o tQux),
      PChunk("three", tFoo \o SP \o tBar \o SP \o tFoo),
      PChunk("none", <<>>),
      PChunk("blank", SP) }

\* every list of at most one chunk, and one list of two
PhChunkLists ==
    SeqsUpTo(PhChunks, 1)
        \cup { << PChunk("five", tHello \o SP \o tWorld \o SP \o tFoo \o SP \o tQux \o SP \o tQux),
                  PChunk("two", tFoo \o SP \o tBar) >> }

\* _extract_text_blocks, the spans of one page from span k on: a span whose
\* stripped text is empty is skipped
RECURSIVE PH_PageBlocks(_, _, _)
PH_PageBlocks(page, page_index, k) ==
    IF k > Len(page.blocks) THEN <<>>
    ELSE LET span == page.blocks[k]
             text == Strip(span[5])
         IN  (IF text = <<>> THEN <<>>
              ELSE << [text |-> text, bbox |-> SubSeq(span, 1, 4),
                       page_index |-> page_index, page_width |-> page.width,
                       page_height |-> page.height] >>)
             \o PH_PageBlocks(page, page_index, k + 1)

\* _extract_text_blocks from page p (1-based) on
RECURSIVE _extract_text_blocks(_, _)
_extract_text_blocks(file, p) ==
    IF p > Len(file) THEN <<>>
    ELSE PH_PageBlocks(file[p], p - 1, 1) \o _extract_text_blocks(file, p + 1)

\* \w of the regular expression, on the characters of the model
WordChar(c) == c \notin (Whitespace \cup Punctuation \cup Invisible \cup {"SHY"})

RECURSIVE TokenizeFrom(_, _, _)
TokenizeFrom(text, i, token) ==
    IF i > Len(text) THEN (IF token = <<>> THEN <<>> ELSE <<token>>)
    ELSE IF ~ WordChar(text[i])
         THEN (IF token = <<>> THEN <<>> ELSE <<token>>) \o TokenizeFrom(text, i + 1, <<>>)
         ELSE TokenizeFrom(text, i + 1, Append(token, text[i]))

\* re.findall(r'\b\w+\b', text.lower()): the maximal runs of word characters
_tokenize(text) == TokenizeFrom(Lower(text), 1, <<>>)

\* the indices (1-based, into text_blocks) for which test holds, ascending
BlocksWhere(text_blocks, test(_)) ==
    SelectSeq([i \in 1..Len(text_blocks) |-> i], test)

\* _find_exact_match that compares in one direction only: the block must
\* contain the chunk
_find_exact_match_one_way(text_blocks, chunk_text, page_hint) ==
    LET normalized_chunk == _normalize_text(chunk_text)
    IN  BlocksWhere(text_blocks,
            LAMBDA i :
                /\ ~ (page_hint.given /\ text_blocks[i].page_index # page_hint.page - 1)
                /\ IsSubstring(normalized_chunk, _normalize_text(text_blocks[i].text)))

_find_exact_match(text_blocks, chunk_text, page_hint) ==
    LET normalized_chunk == _normalize_text(chunk_text)
    IN  BlocksWhere(text_blocks,
            LAMBDA i :
                /\ ~ (page_hint.given /\ text_blocks[i].page_index # page_hint.page - 1)
                /\ LET normalized_block == _normalize_text(text_blocks[i].text)
                   IN  \/ IsSubstring(normalized_chunk, normalized_block)
                       \/ IsSubstring(normalized_block, normalized_chunk))

\* pages_to_search: the hinted page (0-based) and its neighbours, or every
\* page; "self.doc" is false for a document of no pages
PH_pages_to_search(npages, page_hint) ==
    IF page_hint.given
    THEN LET page_idx == page_hint.page - 1
         IN  <<page_idx>>
             \o (IF page_idx > 0 THEN <<page_idx - 1>> ELSE <<>>)
             \o (IF npages > 0 /\ page_idx < npages - 1 THEN <<page_idx + 1>> ELSE <<>>)
    ELSE [i \in 1..npages |-> i - 1]

\* the loop over page_blocks: full_text_tokens and block_positions
\* (start_idx, end_idx, index of the block) of page page_idx, from block k on
RECURSIVE PH_PageTokens(_, _, _, _)
PH_PageTokens(text_blocks, page_idx, k, acc) ==
    IF k > Len(text_blocks) THEN acc
    ELSE LET block_tokens == _tokenize(text_blocks[k].text)
         IN  IF text_blocks[k].page_index # page_idx \/ block_tokens = <<>>
             THEN PH_PageTokens(text_blocks, page_idx, k + 1, acc)
             ELSE PH_PageTokens(text_blocks, page_idx, k + 1,
                      [full_text_tokens |-> acc.full_text_tokens \o block_tokens,
                       block_positions |->
                           Append(acc.block_positions,
                                  << Len(acc.full_text_tokens),
                                     Len(acc.full_text_tokens) + Len(block_tokens), k >>)])

PH_MATCH_TENTHS == 7     \* match_threshold = 0.7
PH_MIN_MATCHES == 3
PH_SHORT_CHUNK == 3      \* fewer tokens: exact match

\* max(3, int(len(chunk_tokens) * 0.7)); the integer division equals the
\* truncated floating-point product for every chunk of fewer than 90 tokens
PH_min_matches(n) == Max(PH_MIN_MATCHES, (n * PH_MATCH_TENTHS) \div 10)

\* PH_min_matches that rounds the 70 % up instead of down
PH_min_matches_ceil(n) == Max(PH_MIN_MATCHES, (n * PH_MATCH_TENTHS + 9) \div 10)

\* matches of the window that starts at i (0-based): the chunk tokens that
\* equal the page token at the same offset; the window ends with the page
PH_matches(chunk_tokens, full_text_tokens, i) ==
    Cardinality({j \in 0..(Len(chunk_tokens) - 1) :
                    /\ i + j < Len(full_text_tokens)
                    /\ chunk_tokens[j + 1] = full_text_tokens[i + j + 1]})

\* the first i of range(len(full_text_tokens) - min_matches + 1) whose
\* window is accepted, or -1
PH_FirstWindow(chunk_tokens, full_text_tokens) ==
    LET min_matches == PH_min_matches(Len(chunk_tokens))
        hits == {i \in 0..(Len(full_text_tokens) - min_matches) :
                    PH_matches(chunk_tokens, full_text_tokens, i) >= min_matches}
    IN  IF hits = {} THEN -1 ELSE CHOOSE i \in hits : \A i2 \in hits : i <= i2

\* the blocks of block_positions that overlap [i, window_end) and are not in
\* matching_blocks yet, appended in order
RECURSIVE PH_Collect(_, _, _, _, _)
PH_Collect(block_positions, k, i, window_end, matching_blocks) ==
    IF k > Len(block_positions) THEN matching_blocks
    ELSE LET pos == block_positions[k]
             listed == \E m \in 1..Len(matching_blocks) : matching_blocks[m] = pos[3]
         IN  PH_Collect(block_positions, k + 1, i, window_end,
                 IF pos[1] < window_end /\ pos[2] > i /\ ~ listed
                 THEN Append(matching_blocks, pos[3]) ELSE matching_blocks)

\* PH_SearchPages without the break: the blocks of every accepted window of
\* a page are collected
RECURSIVE PH_CollectAll(_, _, _, _, _)
PH_CollectAll(chunk_tokens, t, i, min_matches, matching_blocks) ==
    IF i > Len(t.full_text_tokens) - min_matches THEN matching_blocks
    ELSE PH_CollectAll(chunk_tokens, t, i + 1, min_matches,
             IF PH_matches(chunk_tokens, t.full_text_tokens, i) >= min_matches
             THEN PH_Collect(t.block_positions, 1, i, i + Len(chunk_tokens), matching_blocks)
             ELSE matching_blocks)

PH_PageWindowNoBreak(text_blocks, chunk_tokens, page_idx, st) ==
    LET t == PH_PageTokens(text_blocks, page_idx, 1,
                           [full_text_tokens |-> <<>>, block_positions |-> <<>>])
        i == PH_FirstWindow(chunk_tokens, t.full_text_tokens)
    IN  IF i < 0 THEN st
        ELSE [matching_blocks |->
                  PH_CollectAll(chunk_tokens, t, 0, PH_min_matches(Len(chunk_tokens)),
                                st.matching_blocks),
              windows |-> Append(st.windows, [page_idx |-> page_idx, i |-> i])]

\* one pass of "for page_idx in pages_to_search"
PH_PageWindow(text_blocks, chunk_tokens, page_idx, st) ==
    LET t == PH_PageTokens(text_blocks, page_idx, 1,
                           [full_text_tokens |-> <<>>, block_positions |-> <<>>])
        i == PH_FirstWindow(chunk_tokens, t.full_text_tokens)
    IN  IF i < 0 THEN st
        ELSE [matching_blocks |->
                  PH_Collect(t.block_positions, 1, i, i + Len(chunk_tokens),
                             st.matching_blocks),
              windows |-> Append(st.windows, [page_idx |-> page_idx, i |-> i])]

RECURSIVE PH_SearchPages(_, _, _, _, _)
PH_SearchPages(text_blocks, chunk_tokens, pages, k, st) ==
    IF k > Len(pages) THEN st
    ELSE PH_SearchPages(text_blocks, chunk_tokens, pages, k + 1,
                        PH_PageWindow(text_blocks, chunk_tokens, pages[k], st))

\* _find_matching_blocks: which path was taken, the indices of the matching
\* blocks, and the accepted windows (page, first token)
_find_matching_blocks(text_blocks, npages, chunk_text, page_hint) ==
    LET chunk_tokens == _tokenize(chunk_text)
    IN  IF Len(chunk_tokens) < PH_SHORT_CHUNK
        THEN [path |-> "exact",
              matching_blocks |-> _find_exact_match(text_blocks, chunk_text, page_hint),
              windows |-> <<>>]
        ELSE LET st == PH_SearchPages(text_blocks, chunk_tokens,
                                      PH_pages_to_search(npages, page_hint), 1,
                                      [matching_blocks |-> <<>>, windows |-> <<>>])
             IN  [path |-> "window", matching_blocks |-> st.matching_blocks,
                  windows |-> st.windows]

\* PDFTextBlock.to_highlight_area
to_highlight_area(block) ==
    [pageIndex |-> block.page_index,
     left |-> Percent(block.bbox[1], block.page_width),
     top |-> Percent(block.bbox[2], block.page_height),
     width |-> Percent(block.bbox[3] - block.bbox[1], block.page_width),
     height |-> Percent(block.bbox[4] - block.bbox[2], block.page_height)]

\* find_chunk_highlights: what it found and the ChunkHighlight it returns
\* (hl: no item for None)
find_chunk_highlights(text_blocks, npages, chunk_id, chunk_text, page_hint) ==
    LET found == _find_matching_blocks(text_blocks, npages, chunk_text, page_hint)
        areas == [m \in 1..Len(found.matching_blocks) |->
                     to_highlight_area(text_blocks[found.matching_blocks[m]])]
        merged_areas == PH_merge_adjacent_areas(areas)
        primary_page == PrimaryPage(merged_areas)
    IN  [chunk_id |-> chunk_id, chunk_text |-> chunk_text, page_hint |-> page_hint,
         path |-> found.path, matching_blocks |-> found.matching_blocks,
         windows |-> found.windows,
         hl |-> IF found.matching_blocks = <<>> THEN <<>>
                ELSE << [chunkId |-> chunk_id, pageIndex |-> primary_page,
                         text |-> chunk_text, areas |-> merged_areas] >>]

\* one pass of the loop of find_all_highlights
PH_ProcessChunk(text_blocks, npages, chunk) ==
    LET chunk_id == Get(chunk, "id", "unknown")
        chunk_text == Get(chunk, "text", <<>>)
        page_hint == Hint(chunk)
    IN  IF chunk_text = <<>>
        THEN [chunk_id |-> chunk_id, chunk_text |-> chunk_text, page_hint |-> page_hint,
              path |-> "skipped", matching_blocks |-> <<>>, windows |-> <<>>, hl |-> <<>>]
        ELSE find_chunk_highlights(text_blocks, npages, chunk_id, chunk_text, page_hint)

PhInit ==
    /\ pdf \in PhPDFs
    /\ SessionIdle
    /\ AuxIdle

\* PDFHighlighter.__init__ -> _load_pdf -> _extract_text_blocks
PhOpen ==
    /\ phs.doc = "None"
    /\ phs' = [phs EXCEPT !.doc = "open", !.text_blocks = _extract_text_blocks(pdf, 1)]
    /\ UNCHANGED <<sessionVars, mergeVars, norm, enh, rag, life, hls, split, two>>

\* PDFHighlighter.find_all_highlights
PhFind(chunk_list) ==
    /\ phs.doc = "open"
    /\ phs.calls < CallsPerSession
    /\ LET tr == [k \in 1..Len(chunk_list) |->
                     PH_ProcessChunk(phs.text_blocks, Len(pdf), chunk_list[k])]
       IN  phs' = [phs EXCEPT !.chunks = chunk_list, !.trace = tr,
                              !.highlights = Collect(tr, 1), !.calls = @ + 1]
    /\ UNCHANGED <<sessionVars, mergeVars, norm, enh, rag, life, hls, split, two>>

\* PDFHighlighter.close: "if self.doc" is false for a document of no pages;
\* otherwise the document is closed and self.doc set to None ("closed")
PhClose ==
    /\ phs.doc = "open"
    /\ phs' = [phs EXCEPT !.doc = IF Len(pdf) > 0 THEN "closed" ELSE "open"]
    /\ UNCHANGED <<sessionVars, mergeVars, norm, enh, rag, life, hls, split, two>>

PhNext ==
    \/ PhOpen
    \/ \E chunk_list \in PhChunkLists : PhFind(chunk_list)
    \/ PhClose

PhSpec == PhInit /\ [][PhNext]_vars

----------------------------------------------------------------------------
(* Properties of the session (specification Spec) *)

\* the raw text of a chunk, as find_all_highlights reads it
RawContent(chunk) == Get(chunk, "content", Get(chunk, "text", <<>>))

\* a and b share a contiguous run of at least n characters
HasCommonRun(a, b, n) ==
    \E i \in 1..(Len(a) - n + 1) : \E j \in 1..(Len(b) - n + 1) :
        \A d \in 0..(n - 1) : a[i + d] = b[j + d]

\* a page of the file holds a word whose normalised text is empty
HasBlankWord(file) ==
    \E p \in 1..Len(file) : \E k \in 1..Len(file[p].words) :
        _make_skeleton_segment(file[p].words[k][5]) = <<>>

\* C1: in every state of a session - before and after construction, and
\* after every find_all_highlights call - the skeleton and the
\* character-to-word map have the same length and every entry of the map is
\* a valid 0-based index into global_words.
C1_SkeletonInvariant ==
    /\ Len(doc_skeleton) = Len(char_to_word_idx)
    /\ \A i \in 1..Len(char_to_word_idx) :
           char_to_word_idx[i] \in 0..(Len(global_words) - 1)

\* a PDF with a whitespace-only word was indexed and a call found a match
C1_Witness ==
    /\ calls >= 1
    /\ HasBlankWord(pdf)
    /\ Len(doc_skeleton) > 0
    /\ results # <<>>

\* C2: a chunk whose skeleton shares no run of 15 or more characters with
\* the document skeleton gets no ChunkHighlight.
C2_MinLengthRejection ==
    \A k \in 1..Len(trace) :
        ~ HasCommonRun(doc_skeleton, _make_skeleton_segment(RawContent(chunks[k])), 15)
            => /\ trace[k].hl = <<>>
               /\ Len(results) < Len(chunks)

\* a chunk was dropped although it shares a run of 10 to 14 characters
C2_Witness ==
    \E k \in 1..Len(trace) :
        /\ trace[k].outcome = "nomatch"
        /\ trace[k].size >= 10
        /\ trace[k].size < 15
        /\ trace[k].hl = <<>>

----------------------------------------------------------------------------
(* The document as the claims describe it, computed from the file and not   *)
(* from the index of the session.                                           *)

\* number of skeleton characters before each word of a stream, and after
\* the last one: Offsets(stream, 1, <<0>>)[n] characters precede word n
RECURSIVE Offsets(_, _, _)
Offsets(stream, k, acc) ==
    IF k > Len(stream) THEN acc
    ELSE Offsets(stream, k + 1,
                 Append(acc, acc[Len(acc)] + Len(_make_skeleton_segment(stream[k].w[5]))))

\* every word of the file in document order, with the offsets
DocView ==
    LET stream == WordStream(pdf, 1)
    IN  [stream |-> stream, off |-> Offsets(stream, 1, <<0>>)]

\* number of skeleton characters of word n of the stream
SkelLen(v, n) == v.off[n + 1] - v.off[n]

\* number of skeleton characters before word n
OffsetOf(v, n) == v.off[n]

\* 0-based position of word n among the words with a non-empty skeleton
IndexedBefore(v, n) == Cardinality({m \in 1..(n - 1) : SkelLen(v, m) > 0})

\* 0-based page of the word that owns skeleton character x (1-based)
CharPage(v, x) ==
    v.stream[CHOOSE n \in 1..Len(v.stream) : v.off[n] < x /\ x <= v.off[n + 1]].page

\* the raw texts of words n..m joined by sep
RECURSIVE JoinWords(_, _, _, _)
JoinWords(v, n, m, sep) ==
    IF n > m THEN <<>>
    ELSE IF n = m THEN v.stream[n].w[5]
    ELSE v.stream[n].w[5] \o sep \o JoinWords(v, n + 1, m, sep)

\* the indexed words whose text the raw text starts with
RunStarts(v, raw) ==
    {n \in 1..Len(v.stream) :
        /\ SkelLen(v, n) > 0
        /\ Len(v.stream[n].w[5]) <= Len(raw)
        /\ SubSeq(raw, 1, Len(v.stream[n].w[5])) = v.stream[n].w[5]}

\* raw is, verbatim, words n..m of one page (joined by single spaces or not
\* at all), and n and m are indexed words
IsWordRun(v, raw, n, m) ==
    /\ n <= m
    /\ n \in RunStarts(v, raw)
    /\ v.stream[n].page = v.stream[m].page
    /\ SkelLen(v, m) > 0
    /\ (raw = JoinWords(v, n, m, SP) \/ raw = JoinWords(v, n, m, <<>>))

\* the (n, m) with IsWordRun(v, raw, n, m)
WordRuns(v, raw) ==
    {nm \in RunStarts(v, raw) \X (1..Len(v.stream)) : IsWordRun(v, raw, nm[1], nm[2])}

\* c occurs in a at 0-based offset o
OccursAt(a, c, o) ==
    /\ o >= 0
    /\ o + Len(c) <= Len(a)
    /\ \A d \in 1..Len(c) : a[o + d] = c[d]

ChunkSkeleton(k) == _make_skeleton_segment(RawContent(chunks[k]))

Matched(k) == trace[k].outcome = "matched" /\ Len(trace[k].hl) = 1

\* chunk k was matched to exactly the words n..m of the stream, and every
\* merged area and the primary page are on the page of these words
ExactlyWords(v, k, n, m) ==
    /\ Matched(k)
    /\ trace[k].start_word_idx = IndexedBefore(v, n)
    /\ trace[k].end_word_idx = IndexedBefore(v, m)
    /\ Len(trace[k].word_areas) = IndexedBefore(v, m) - IndexedBefore(v, n) + 1
    /\ \A i \in 1..Len(trace[k].hl[1].areas) :
           trace[k].hl[1].areas[i].pageIndex = v.stream[n].page

\* C3 as stated: a chunk that is verbatim N consecutive words of one page is
\* matched to exactly these words, with every merged area on that page.
C3_ExactMatchOriginal ==
    LET v == DocView
    IN  \A k \in 1..Len(trace) : \A nm \in WordRuns(v, RawContent(chunks[k])) :
            ExactlyWords(v, k, nm[1], nm[2])

\* no occurrence of the skeleton c in the document skeleton starts before
\* word n
FirstAt(v, c, n) ==
    \A o \in 0..(OffsetOf(v, n) - 1) : ~ OccursAt(doc_skeleton, c, o)

\* C3 amended: a chunk that is verbatim N consecutive words of one page, has
\* at least 15 skeleton characters, and whose skeleton occurs nowhere in the
\* document skeleton before these words, is matched to exactly these words,
\* with every merged area on that page.
C3_ExactMatch ==
    LET v == DocView
    IN  \A k \in 1..Len(trace) :
            LET c == ChunkSkeleton(k)
            IN  Len(c) >= 15 =>
                    \A nm \in WordRuns(v, RawContent(chunks[k])) :
                        FirstAt(v, c, nm[1]) => ExactlyWords(v, k, nm[1], nm[2])

\* the four words of the second page were asked for and returned
C3_Witness ==
    LET v == DocView
    IN  \E k \in 1..Len(trace) :
            /\ Len(ChunkSkeleton(k)) >= 15
            /\ \E nm \in WordRuns(v, RawContent(chunks[k])) :
                   /\ FirstAt(v, ChunkSkeleton(k), nm[1])
                   /\ v.stream[nm[1]].page = 1
                   /\ nm[2] = nm[1] + 3
                   /\ ExactlyWords(v, k, nm[1], nm[2])

\* text without its spaces and newlines
StripSpaces(text) == SelectSeq(text, LAMBDA c : c \notin {" ", "\n"})

\* C4: two chunks whose texts differ only in spaces and newlines are both
\* matched or both unmatched, and when matched they get the same first and
\* last word index.
C4_WhitespaceRobust ==
    \A k1 \in 1..Len(trace) : \A k2 \in 1..Len(trace) :
        StripSpaces(RawContent(chunks[k1])) = StripSpaces(RawContent(chunks[k2]))
            => /\ Matched(k1) <=> Matched(k2)
               /\ trace[k1].start_word_idx = trace[k2].start_word_idx
               /\ trace[k1].end_word_idx = trace[k2].end_word_idx

\* one call matched a chunk and a respaced copy of it, with a break inside
\* a word
C4_Witness ==
    \E k1 \in 1..Len(trace) : \E k2 \in 1..Len(trace) :
        /\ RawContent(chunks[k1]) # RawContent(chunks[k2])
        /\ Len(RawContent(chunks[k1])) < Len(RawContent(chunks[k2]))
        /\ StripSpaces(RawContent(chunks[k1])) = StripSpaces(RawContent(chunks[k2]))
        /\ Matched(k1)
        /\ Matched(k2)
        /\ trace[k1].end_word_idx > trace[k1].start_word_idx

\* the 0-based offsets at which skeleton c occurs in the document skeleton
Occurrences(c) ==
    {o \in 0..(Len(doc_skeleton) - Len(c)) : Len(c) > 0 /\ OccursAt(doc_skeleton, c, o)}

\* those of the offsets occ at which skeleton c lies inside 0-based page q
OccurrencesOn(v, c, occ, q) ==
    {o \in occ : CharPage(v, o + 1) = q /\ CharPage(v, o + Len(c)) = q}

\* C5 as stated: a chunk with page hint h whose text is on page h and on
\* another page is matched, every area is on page h or a neighbour of it,
\* and the match is on page h (0-based h - 1).
C5_PageHintNarrowing ==
    LET v == DocView
    IN  \A k \in 1..Len(trace) :
            LET c == ChunkSkeleton(k)
                occ == Occurrences(c)
            IN  ( /\ "page" \in DOMAIN chunks[k]
                  /\ chunks[k].page \in 1..Len(pdf)
                  /\ OccurrencesOn(v, c, occ, chunks[k].page - 1) # {}
                  /\ \E q \in 0..(Len(pdf) - 1) :
                         q # chunks[k].page - 1 /\ OccurrencesOn(v, c, occ, q) # {} )
                => /\ Matched(k)
                   /\ \A i \in 1..Len(trace[k].hl[1].areas) :
                          trace[k].hl[1].areas[i].pageIndex \in
                              (chunks[k].page - 2)..(chunks[k].page)
                   /\ \E i \in 1..Len(trace[k].hl[1].areas) :
                          trace[k].hl[1].areas[i].pageIndex = chunks[k].page - 1

InBounds(a) ==
    /\ 0 <= a.left /\ a.left <= 100 * Scale
    /\ 0 <= a.top /\ a.top <= 100 * Scale
    /\ a.left + a.width <= 100 * Scale
    /\ a.top + a.height <= 100 * Scale

WordInPage(gw) ==
    /\ 0 <= gw.bbox[1] /\ gw.bbox[1] <= gw.bbox[3] /\ gw.bbox[3] <= pdf[gw.page + 1].width
    /\ 0 <= gw.bbox[2] /\ gw.bbox[2] <= gw.bbox[4] /\ gw.bbox[4] <= pdf[gw.page + 1].height

RunPages(v, raw) == {v.stream[nm[1]].page : nm \in WordRuns(v, raw)}

\* C9 as stated: a chunk without a hint that occurs verbatim on exactly one
\* page is matched and all its areas are on that page.
C9_EndToEndOriginal ==
    LET v == DocView
    IN  \A k \in 1..Len(trace) :
            LET pages == RunPages(v, RawContent(chunks[k]))
            IN  ("page" \notin DOMAIN chunks[k] /\ Cardinality(pages) = 1)
                => /\ Matched(k)
                   /\ \A i \in 1..Len(trace[k].hl[1].areas) :
                          trace[k].hl[1].areas[i].pageIndex \in pages

\* C9 amended: a chunk without a hint that has at least 15 skeleton
\* characters and whose skeleton occurs in the document skeleton inside one
\* page only is matched, and all its areas and its primary page are on that
\* page, even when another page shares a prefix of it; the 13-character
\* chunk "Hello world foo" is matched on no document.
C9_EndToEnd ==
    LET v == DocView
    IN  \A k \in 1..Len(trace) :
            LET c == ChunkSkeleton(k)
                occ == Occurrences(c)
            IN  /\ ("page" \notin DOMAIN chunks[k] /\ Len(c) >= 15 /\ occ # {}) =>
                       \A q \in 0..(Len(pdf) - 1) :
                           OccurrencesOn(v, c, occ, q) = occ
                           => /\ Matched(k)
                              /\ trace[k].hl[1].pageIndex = q
                              /\ \A i \in 1..Len(trace[k].hl[1].areas) :
                                     trace[k].hl[1].areas[i].pageIndex = q
                /\ chunks[k] = ChunkShort => ~ Matched(k)

\* page 1 starts with the first ten characters of the chunk, page 2 holds
\* the chunk, and the match is on page 2
C9_Witness ==
    LET v == DocView
    IN  \E k \in 1..Len(trace) :
            LET c == ChunkSkeleton(k)
                occ == Occurrences(c)
            IN  /\ "page" \notin DOMAIN chunks[k]
                /\ Len(pdf) = 2
                /\ Len(c) >= 15
                /\ occ # {}
                /\ OccurrencesOn(v, c, occ, 1) = occ
                /\ Len(doc_skeleton) >= 10
                /\ SubSeq(doc_skeleton, 1, 10) = SubSeq(c, 1, 10)
                /\ Matched(k)
                /\ trace[k].hl[1].pageIndex = 1

AreaCount(areas, q) == Cardinality({i \in 1..Len(areas) : areas[i].pageIndex = q})

AreaPages(areas) == {areas[i].pageIndex : i \in 1..Len(areas)}

\* C10: the pageIndex of every returned ChunkHighlight is a page with the
\* largest number of merged areas of that chunk, and the lowest such page.
C10_PrimaryPage ==
    \A r \in 1..Len(results) :
        /\ results[r].pageIndex \in AreaPages(results[r].areas)
        /\ \A q \in AreaPages(results[r].areas) :
               /\ AreaCount(results[r].areas, q) <= AreaCount(results[r].areas, results[r].pageIndex)
               /\ AreaCount(results[r].areas, q) = AreaCount(results[r].areas, results[r].pageIndex)
                      => results[r].pageIndex <= q

\* a result with as many areas on page 0 as on page 1, and one with more
\* areas on the later page
C10_Witness ==
    \E r \in 1..Len(results) :
        /\ AreaCount(results[r].areas, 0) = AreaCount(results[r].areas, 1)
        /\ AreaCount(results[r].areas, 0) >= 2
        /\ results[r].pageIndex = 0

----------------------------------------------------------------------------
(* Properties of the mergers (specification MergeSpec) *)

\* area m covers area a
Contains(m, a) ==
    /\ m.pageIndex = a.pageIndex
    /\ m.left <= a.left
    /\ m.top <= a.top
    /\ m.left + m.width >= a.left + a.width
    /\ m.top + m.height >= a.top + a.height

\* the bounding envelope of two areas of one page
Envelope(a, b) ==
    [pageIndex |-> a.pageIndex,
     left |-> Min(a.left, b.left),
     top |-> Min(a.top, b.top),
     width |-> Max(a.left + a.width, b.left + b.width) - Min(a.left, b.left),
     height |-> Max(a.top + a.height, b.top + b.height) - Min(a.top, b.top)]

\* C6 as stated: for the mergers of LightRAGHighlighter,
\* EnhancedPDFHighlighter and pdf_highlighter.PDFHighlighter, two areas
\* folded into one give exactly their bounding envelope, and every input
\* area is covered by a merged area.
C6_MergeIsUnion ==
    mWho \in {"lightrag", "enhanced", "pdf"} =>
        /\ (Len(mAreas) = 2 /\ Len(mMerged) = 1)
               => mMerged[1] = Envelope(mAreas[1], mAreas[2])
        /\ \A i \in 1..Len(mAreas) : \E m \in 1..Len(mMerged) :
               Contains(mMerged[m], mAreas[i])

\* the two areas of a two-element input in the order the sort leaves them
SortedPair(rounded) ==
    LET x == mAreas[1]
        y == mAreas[2]
        kx == IF rounded THEN <<x.pageIndex, Round1(x.top), x.left>>
                         ELSE <<x.pageIndex, x.top, x.left>>
        ky == IF rounded THEN <<y.pageIndex, Round1(y.top), y.left>>
                         ELSE <<y.pageIndex, y.top, y.left>>
    IN  IF KeyLess(ky, kx) THEN <<y, x>> ELSE <<x, y>>

TopDiff(pair) == Abs(pair[1].top - pair[2].top)
Gap(pair) == pair[2].left - (pair[1].left + pair[1].width)
SamePage(pair) == pair[1].pageIndex = pair[2].pageIndex

\* C7 as stated: in the mergers of LightRAGHighlighter,
\* EnhancedPDFHighlighter and highlight.PDFHighlighter, the second of two
\* areas sorted by (page, round(top, 1), left) is merged into the first if
\* and only if same page, top difference < 1.5 and horizontal gap < 4.0.
C7_MergeRuleOriginal ==
    (mWho \in {"lightrag", "enhanced", "highlight"} /\ Len(mAreas) = 2) =>
        ( Len(mMerged) = 1 <=>
            /\ SamePage(SortedPair(TRUE))
            /\ TopDiff(SortedPair(TRUE)) < 150
            /\ Gap(SortedPair(TRUE)) < 400 )

\* C7 amended: the rule "same page, top difference < 1.5, gap < 4.0" after
\* the sort by (page, round(top, 1), left) is the rule of
\* EnhancedPDFHighlighter; LightRAGHighlighter sorts the same way and merges
\* if and only if same page, top difference <= 1.5 and gap <= 20.0 (so a gap
\* of 10.0 merges); highlight.PDFHighlighter sorts by (page, top, left) and
\* merges if and only if same page, top difference < 1.0 and gap < 3.0.
C7_MergeRule ==
    Len(mAreas) = 2 =>
        /\ mWho = "enhanced" =>
             ( Len(mMerged) = 1 <=>
                 /\ SamePage(SortedPair(TRUE))
                 /\ TopDiff(SortedPair(TRUE)) < 150
                 /\ Gap(SortedPair(TRUE)) < 400 )
        /\ mWho = "lightrag" =>
             ( Len(mMerged) = 1 <=>
                 /\ SamePage(SortedPair(TRUE))
                 /\ TopDiff(SortedPair(TRUE)) <= 150
                 /\ Gap(SortedPair(TRUE)) <= 2000 )
        /\ mWho = "highlight" =>
             ( Len(mMerged) = 1 <=>
                 /\ SamePage(SortedPair(FALSE))
                 /\ TopDiff(SortedPair(FALSE)) < 100
                 /\ Gap(SortedPair(FALSE)) < 300 )
        /\ mWho # "none" => Len(mMerged) \in {1, 2}

\* LightRAGHighlighter merged two areas of one line that are 10 % apart
C7_Witness ==
    /\ mWho = "lightrag"
    /\ Len(mAreas) = 2
    /\ SamePage(SortedPair(TRUE))
    /\ Gap(SortedPair(TRUE)) = 1000
    /\ TopDiff(SortedPair(TRUE)) < 150
    /\ Len(mMerged) = 1

\* merged area m is built from the input areas with indices G: they are all
\* on its page, and its left, top and right edges are the least left, the
\* least top and the greatest right edge among them
BuiltFrom(m, G) ==
    /\ G # {}
    /\ \A i \in G :
           /\ mAreas[i].pageIndex = m.pageIndex
           /\ m.left <= mAreas[i].left
           /\ m.top <= mAreas[i].top
           /\ m.left + m.width >= mAreas[i].left + mAreas[i].width
    /\ \E i \in G : m.left = mAreas[i].left
    /\ \E i \in G : m.top = mAreas[i].top
    /\ \E i \in G : m.left + m.width = mAreas[i].left + mAreas[i].width

\* C28: for the mergers of LightRAGHighlighter, EnhancedPDFHighlighter and
\* pdf_highlighter.PDFHighlighter, the input areas can be assigned to the
\* merged areas, each input to one merged area, so that every merged area
\* is built from the inputs assigned to it, all of its own page; there are
\* at least as many merged areas as distinct input pages and at most as
\* many as input areas; and the merged list is ordered by page index.
C28_MergerStructure ==
    mWho \in {"lightrag", "enhanced", "pdf"} =>
        /\ \E f \in [1..Len(mAreas) -> 1..Len(mMerged)] :
               \A j \in 1..Len(mMerged) :
                   BuiltFrom(mMerged[j], {i \in 1..Len(mAreas) : f[i] = j})
        /\ Len(mMerged) >= Cardinality(AreaPages(mAreas))
        /\ Len(mMerged) <= Len(mAreas)
        /\ \A i, j \in 1..Len(mMerged) :
               i < j => mMerged[i].pageIndex <= mMerged[j].pageIndex

\* three areas of two pages, given with the later page first, came out as
\* two merged areas, one per page
C28_Witness ==
    /\ mWho = "lightrag"
    /\ Len(mAreas) = 3
    /\ mAreas[1].pageIndex = 1
    /\ mAreas[2].pageIndex = 0
    /\ mAreas[3].pageIndex = 0
    /\ Len(mMerged) = 2
    /\ mMerged[1].pageIndex = 0
    /\ mMerged[1].width > mAreas[2].width

----------------------------------------------------------------------------
(* Properties of the normalisers (specification NormSpec) *)

\* C11 as stated: for each of the normalisers _make_skeleton_segment,
\* _normalize_text, the two _clean_text and _clean_text_for_matching, and
\* every string s, normalising twice gives what normalising once gives.
C11_NormaliseIdempotent ==
    norm.who # "none" => norm.twice = norm.once

----------------------------------------------------------------------------
(* Properties of EnhancedPDFHighlighter (specification EnhSpec) *)

EmptyCache == [pages_content |-> <<>>, pages_rects |-> <<>>]

\* what a fresh session over the same file returns for the chunk without
\* its page hint
EN_WithoutHint(chunk) ==
    EN_ProcessChunk(pdf, EmptyCache, [id |-> chunk.id, text |-> chunk.text]).hl

\* C12 as stated: a chunk whose page hint is outside 1..page count and that
\* is matched without the hint is matched with it, and to the same areas.
C12_InvalidHintFallback ==
    \A k \in 1..Len(enh.chunks) :
        ( /\ Len(enh.chunks) = 1
          /\ "page" \in DOMAIN enh.chunks[k]
          /\ enh.chunks[k].page \notin 1..Len(pdf)
          /\ EN_WithoutHint(enh.chunks[k]) # <<>> )
        => /\ Len(enh.results) = 1
           /\ enh.results[1].areas = EN_WithoutHint(enh.chunks[k])[1].areas

----------------------------------------------------------------------------
(* Skeleton construction (specification Spec) *)

\* the normalised text of word k of page p (both 1-based)
NormWord(file, pr) == _make_skeleton_segment(file[pr[1]].words[pr[2]][5])

\* the (page, word) positions whose normalised text is not empty
KeptPairs(file) ==
    {pr \in UNION {{<<p, k>> : k \in 1..Len(file[p].words)} : p \in 1..Len(file)} :
        NormWord(file, pr) # <<>>}

\* document order: page ascending, then extraction order within the page
Before(a, b) == a[1] < b[1] \/ (a[1] = b[1] /\ a[2] < b[2])

RECURSIVE SumNorm(_, _)
SumNorm(file, S) ==
    IF S = {} THEN 0
    ELSE LET pr == CHOOSE x \in S : TRUE
         IN  Len(NormWord(file, pr)) + SumNorm(file, S \ {pr})

\* C19: after construction, word n of the index is the n-th word in
\* document order whose normalised text is not empty; its normalised text
\* stands in the skeleton right after the texts of the words before it, and
\* exactly those positions of char_to_word hold n (0-based), so the map is
\* non-decreasing and every indexed word owns at least one character; words
\* that normalise to empty have no index entry and no character.
C19_SkeletonConstruction ==
    doc # "None" =>
        LET kept == KeptPairs(pdf)
        IN  /\ Len(global_words) = Cardinality(kept)
            /\ Len(doc_skeleton) = SumNorm(pdf, kept)
            /\ Len(char_to_word_idx) = Len(doc_skeleton)
            /\ \A pr \in kept :
                   LET earlier == {q \in kept : Before(q, pr)}
                       n == Cardinality(earlier) + 1
                       start == SumNorm(pdf, earlier)
                       text == NormWord(pdf, pr)
                       w == pdf[pr[1]].words[pr[2]]
                   IN  /\ global_words[n] = [page |-> pr[1] - 1,
                                             bbox |-> <<w[1], w[2], w[3], w[4]>>,
                                             text |-> w[5]]
                       /\ \A i \in 1..Len(text) :
                              /\ doc_skeleton[start + i] = text[i]
                              /\ char_to_word_idx[start + i] = n - 1
                       /\ \A i \in 1..Len(char_to_word_idx) :
                              char_to_word_idx[i] = n - 1
                                  => i \in (start + 1)..(start + Len(text))
            /\ \A i \in 1..(Len(char_to_word_idx) - 1) :
                   char_to_word_idx[i] <= char_to_word_idx[i + 1]
            /\ \A n \in 1..Len(global_words) :
                   \E i \in 1..Len(char_to_word_idx) : char_to_word_idx[i] = n - 1

\* a two-page document indexed with a word that normalises to empty on its
\* second page: the words after it are shifted by one in the index
C19_Witness ==
    /\ doc # "None"
    /\ Len(pdf) = 2
    /\ HasBlankWord(<<pdf[2]>>)
    /\ ~ HasBlankWord(<<pdf[1]>>)
    /\ Len(global_words) = Len(pdf[1].words) + Len(pdf[2].words) - 1

----------------------------------------------------------------------------
(* Page-spanning fragments (specification Spec) *)

\* chunk k has at least 15 skeleton characters and the first occurrence of
\* its skeleton in the document starts on page p and ends on page p + 1
SpansPages(v, k, p) ==
    LET c == ChunkSkeleton(k)
        occ == Occurrences(c)
    IN  /\ Len(c) >= MIN_MATCH_SIZE
        /\ occ # {}
        /\ LET o == CHOOSE x \in occ : \A y \in occ : x <= y
           IN  /\ CharPage(v, o + 1) = p
               /\ CharPage(v, o + Len(c)) = p + 1

\* the run matched for chunk k starts on page p and ends on page p + 1
RunSpans(v, k, p) ==
    /\ Matched(k)
    /\ CharPage(v, trace[k].a + 1) = p
    /\ CharPage(v, trace[k].a + trace[k].size) = p + 1

\* C20: a chunk whose text runs from the end of page p into the start of
\* page p + 1 is matched as one run to one ChunkHighlight; for every run
\* matched across the two pages the merged areas lie on both pages and on no
\* other, every merged area stands for words of its own page only (so there
\* are at least two), and the primary page is the page with more merged
\* areas even when that is page p + 1.
C20_PageSpanning ==
    LET v == DocView
    IN  \A k \in 1..Len(trace) : \A p \in 0..(Len(pdf) - 2) :
            /\ SpansPages(v, k, p) =>
                   /\ RunSpans(v, k, p)
                   /\ trace[k].size = Len(ChunkSkeleton(k))
            /\ RunSpans(v, k, p) =>
                   LET hl == trace[k].hl[1]
                       words == trace[k].word_areas
                   IN  /\ AreaPages(hl.areas) = {p, p + 1}
                       /\ AreaPages(words) = {p, p + 1}
                       /\ \A q \in {p, p + 1} :
                              /\ AreaCount(hl.areas, q) >= 1
                              /\ AreaCount(hl.areas, q) <= AreaCount(words, q)
                       /\ Len(hl.areas) >= 2
                       /\ hl.pageIndex \in {p, p + 1}
                       /\ \A q \in {p, p + 1} :
                              AreaCount(hl.areas, q) <= AreaCount(hl.areas, hl.pageIndex)
                       /\ AreaCount(hl.areas, p + 1) > AreaCount(hl.areas, p)
                              => hl.pageIndex = p + 1

\* a run that starts on page 0 and ends on page 1 with more merged areas on
\* page 1, reported with primary page 1
C20_Witness ==
    LET v == DocView
    IN  /\ Len(pdf) = 2
        /\ \E k \in 1..Len(trace) :
               /\ RunSpans(v, k, 0)
               /\ AreaCount(trace[k].hl[1].areas, 1) > AreaCount(trace[k].hl[1].areas, 0)
               /\ trace[k].hl[1].pageIndex = 1

----------------------------------------------------------------------------
(* Per-chunk failure isolation (LightRAGHighlighter) *)

\* what chunk k of the last call yields when it is processed alone against
\* the index of this session
Alone(k) == ProcessChunk(chunks[k]).hl

\* the concatenation of a list of lists, from position k on
RECURSIVE Flatten(_, _)
Flatten(lists, k) == IF k > Len(lists) THEN <<>> ELSE lists[k] \o Flatten(lists, k + 1)

Failed(k) == trace[k].outcome # "matched"

\* C13: after find_all_highlights every chunk of the list has been processed
\* and the results are what the passes appended, in order; a chunk that
\* stands after a failed chunk (empty, too short, no match, index error) has
\* the outcome it has when processed alone, and its highlight is returned.
C13_FailureIsolation ==
    calls > 0 =>
        /\ Len(trace) = Len(chunks)
        /\ results = Flatten([k \in 1..Len(trace) |-> trace[k].hl], 1)
        /\ \A j \in 2..Len(chunks) :
               (\E i \in 1..(j - 1) : Failed(i)) =>
                   LET alone == Alone(j)
                   IN  /\ trace[j].hl = alone
                       /\ alone # <<>> =>
                              \E r \in 1..Len(results) : <<results[r]>> = alone

\* a failed chunk followed by a chunk that is matched and reported
C13_Witness ==
    /\ calls > 0
    /\ Len(chunks) = 2
    /\ trace[1].outcome = "nomatch"
    /\ trace[2].outcome = "matched"
    /\ Len(results) = 1
    /\ results[1].chunkId = trace[2].chunk_id

\* C18 as stated: once the constructor has returned, no step of the session
\* changes the per-page text and word tables of the highlighter.
C18_IndexReadOnly ==
    [][enh.doc = "open" =>
          /\ enh'.pages_content = enh.pages_content
          /\ enh'.pages_rects = enh.pages_rects]_vars

----------------------------------------------------------------------------
(* Properties of RagService._find_text_bbox_in_pdf (RagSpec, RagLiveSpec) *)

\* C14 as stated: the failure policy is to omit - every box returned for a
\* text is a box of a block the matcher accepted, never a substitute block
\* of the hinted page.
C14_OmitPolicy ==
    \A i \in 1..Len(rag.returned) :
        \E j \in 1..Len(rag.matched_bboxes) : rag.returned[i] = rag.matched_bboxes[j]

\* C15 as stated: a document handle left open is eventually closed, on
\* every path of the call (match, no match, exception, invalid page number).
C15_GuaranteedRelease == (rag.open_handles > 0) ~> (rag.open_handles = 0)

----------------------------------------------------------------------------
(* Properties of the life of a highlighter object (LifeSpec) *)

\* C16 as stated: for every highlighter class, after one or more close()
\* calls the document has been closed exactly once, the last call raised no
\* error, and the session is closed.
C16_CloseIdempotent ==
    life.close_calls >= 1 =>
        /\ life.error = "none"
        /\ life.doc_closes = 1
        /\ life.handle = "closed"

\* C17: when the PDF cannot be opened or a page cannot be parsed, the
\* constructor raises to its caller, the caller gets no highlighter object
\* (so none with a partly built index can be used), and the wrapper returns
\* no highlights for the file.
C17_FailFast ==
    life.fault # "none" =>
        /\ life.error = "raised"
        /\ ~ life.usable
        /\ life.close_calls = 0
        /\ life.wrapper \in {"none", "empty"}

\* the second page of a file failed to parse after the first was indexed
C17_Witness ==
    /\ life.fault = "parse"
    /\ life.indexed > 0
    /\ life.error = "raised"
    /\ ~ life.usable

----------------------------------------------------------------------------
(* Properties of the span mapping and of the choice among repeated text     *)
(* (specification Spec)                                                     *)

\* the words of the stream that own at least one skeleton character of the
\* run [a, a + size) (a is 0-based)
RunOwners(v, a, size) ==
    {n \in 1..Len(v.stream) :
        SkelLen(v, n) > 0 /\ OffsetOf(v, n) < a + size /\ OffsetOf(v, n + 1) > a}

\* C26: an accepted run [a, a + size) is mapped to the words start..end
\* (start <= end) that own a skeleton character of it, partly covered first
\* and last words included; there is one word-level area per such word, the
\* area of that word; the mapping never fails with an IndexError and never
\* yields an empty word list.
C26_SpanMapping ==
    LET v == DocView
    IN  \A k \in 1..Len(trace) :
            /\ trace[k].outcome \notin {"indexerror", "nowords"}
            /\ trace[k].size >= 15 =>
                   LET owners == RunOwners(v, trace[k].a, trace[k].size)
                       start == trace[k].start_word_idx
                       end == trace[k].end_word_idx
                   IN  /\ Matched(k)
                       /\ start <= end
                       /\ {IndexedBefore(v, n) : n \in owners} = start..end
                       /\ Len(trace[k].word_areas) = end - start + 1
                       /\ \A n \in owners :
                              trace[k].word_areas[IndexedBefore(v, n) - start + 1]
                                  = WordToArea(pdf, [page |-> v.stream[n].page,
                                                     bbox |-> SubSeq(v.stream[n].w, 1, 4)])

\* an accepted run that starts inside its first word and ends inside its
\* last word
C26_Witness ==
    LET v == DocView
    IN  \E k \in 1..Len(trace) :
            /\ Matched(k)
            /\ trace[k].size >= 15
            /\ \E n, m \in RunOwners(v, trace[k].a, trace[k].size) :
                   /\ OffsetOf(v, n) < trace[k].a
                   /\ OffsetOf(v, m + 1) > trace[k].a + trace[k].size
                   /\ trace[k].start_word_idx = IndexedBefore(v, n)
                   /\ trace[k].end_word_idx = IndexedBefore(v, m)
                   /\ n < m

\* the n characters of the document skeleton from 0-based offset o
DocRun(o, n) == SubSeq(doc_skeleton, o + 1, o + n)

\* C27: the accepted run is a longest run shared with the chunk, no run of
\* that length shared with the chunk starts earlier in the document
\* skeleton, and every area of the highlight is on a page of the words of
\* that earliest run, whatever 'page' the chunk carries.
C27_EarliestOccurrence ==
    LET v == DocView
    IN  \A k \in 1..Len(trace) :
            trace[k].size >= 15 =>
                LET c == ChunkSkeleton(k)
                    a == trace[k].a
                    size == trace[k].size
                    owners == RunOwners(v, a, size)
                IN  /\ IsSubstring(DocRun(a, size), c)
                    /\ ~ HasCommonRun(doc_skeleton, c, size + 1)
                    /\ \A o \in 0..(a - 1) : ~ IsSubstring(DocRun(o, size), c)
                    /\ Matched(k)
                    /\ \A i \in 1..Len(trace[k].hl[1].areas) :
                           \E n \in owners :
                               trace[k].hl[1].areas[i].pageIndex = v.stream[n].page

\* a chunk that carries page 2, whose run is on the first and on the second
\* page, was highlighted on the first page only
C27_Witness ==
    LET v == DocView
    IN  \E k \in 1..Len(trace) :
            /\ Matched(k)
            /\ "page" \in DOMAIN chunks[k]
            /\ chunks[k].page = 2
            /\ \E o \in (trace[k].a + 1)..(Len(doc_skeleton) - trace[k].size) :
                   /\ DocRun(o, trace[k].size) = DocRun(trace[k].a, trace[k].size)
                   /\ CharPage(v, o + 1) = 1
            /\ \A i \in 1..Len(trace[k].hl[1].areas) :
                   trace[k].hl[1].areas[i].pageIndex = 0

----------------------------------------------------------------------------
(* Properties of pdf_highlighter.PDFHighlighter (specification PhSpec) *)

\* text a occurs in text b
OccursIn(a, b) == \E o \in 0..(Len(b) - Len(a)) : OccursAt(b, a, o)

\* block i of the session may be returned for the short chunk of pass k: it
\* is on the hinted page if there is a hint, and its normalised text
\* contains the normalised chunk or is contained in it
ShortChunkBlock(k, i) ==
    LET block == phs.text_blocks[i]
        chunk == phs.chunks[k]
        nb == _normalize_text(block.text)
        nc == _normalize_text(chunk.text)
    IN  /\ "page" \in DOMAIN chunk => block.page_index = chunk.page - 1
        /\ (OccursIn(nc, nb) \/ OccursIn(nb, nc))

\* the indices in a list of block indices
Listed(matching_blocks) == {matching_blocks[m] : m \in 1..Len(matching_blocks)}

\* C21: for a chunk with text and fewer than 3 tokens, the blocks found are
\* exactly the blocks (of the hinted page when there is a hint, else of any
\* page) whose normalised text contains the normalised chunk or is
\* contained in it, each once; a highlight is returned if and only if there
\* is such a block, and its areas cover every such block and lie on the
\* pages of these blocks.
C21_ShortFragmentFallback ==
    \A k \in 1..Len(phs.trace) :
        (phs.chunks[k].text # <<>> /\ Len(_tokenize(phs.chunks[k].text)) < 3) =>
            LET t == phs.trace[k]
                want == {i \in 1..Len(phs.text_blocks) : ShortChunkBlock(k, i)}
            IN  /\ Listed(t.matching_blocks) = want
                /\ Len(t.matching_blocks) = Cardinality(want)
                /\ (t.hl = <<>>) <=> (want = {})
                /\ want # {} =>
                       /\ \A i \in want : \E a \in 1..Len(t.hl[1].areas) :
                              Contains(t.hl[1].areas[a], to_highlight_area(phs.text_blocks[i]))
                       /\ \A a \in 1..Len(t.hl[1].areas) : \E i \in want :
                              t.hl[1].areas[a].pageIndex = phs.text_blocks[i].page_index

\* a two-token chunk with a hint got a block of the hinted page whose text
\* is shorter than the chunk, and not a block of another page that contains
\* the chunk
C21_Witness ==
    \E k \in 1..Len(phs.trace) :
        /\ "page" \in DOMAIN phs.chunks[k]
        /\ Len(_tokenize(phs.chunks[k].text)) = 2
        /\ \E i \in Listed(phs.trace[k].matching_blocks) :
               Len(phs.text_blocks[i].text) < Len(phs.chunks[k].text)
        /\ \E i \in 1..Len(phs.text_blocks) :
               /\ i \notin Listed(phs.trace[k].matching_blocks)
               /\ OccursIn(_normalize_text(phs.chunks[k].text),
                           _normalize_text(phs.text_blocks[i].text))
        /\ Len(phs.highlights) = 1

\* the tokens of 0-based page q of the session, in block order
PageTokensOf(q) ==
    PH_PageTokens(phs.text_blocks, q, 1,
                  [full_text_tokens |-> <<>>, block_positions |-> <<>>])

\* how many tokens of the chunk equal the token of page q at the same offset
\* from 0-based token i
SameOffsetMatches(chunk_tokens, q, i) ==
    LET page_tokens == PageTokensOf(q).full_text_tokens
    IN  Cardinality({j \in 1..Len(chunk_tokens) :
                        i + j <= Len(page_tokens) /\ chunk_tokens[j] = page_tokens[i + j]})

\* C25 as stated: every window that _find_matching_blocks accepted for a
\* chunk of n >= 3 tokens has at least 3 tokens, and at least 70 % of the
\* n tokens of the chunk, equal to the page token at the same offset.
C25_AcceptanceThreshold ==
    \A k \in 1..Len(phs.trace) : \A w \in 1..Len(phs.trace[k].windows) :
        LET chunk_tokens == _tokenize(phs.chunks[k].text)
            matches == SameOffsetMatches(chunk_tokens, phs.trace[k].windows[w].page_idx,
                                         phs.trace[k].windows[w].i)
        IN  /\ matches >= 3
            /\ 10 * matches >= 7 * Len(chunk_tokens)

\* the 0-based pages of the file that are searched for chunk k: all of them,
\* or the hinted page and its two neighbours
SearchedPages(k) ==
    IF "page" \in DOMAIN phs.chunks[k]
    THEN {phs.chunks[k].page - 2, phs.chunks[k].page - 1, phs.chunks[k].page}
             \cap 0..(Len(pdf) - 1)
    ELSE 0..(Len(pdf) - 1)

\* the 0-based token offsets of page q at which a window for the chunk
\* tokens is accepted
AcceptedAt(chunk_tokens, q) ==
    LET need == PH_min_matches(Len(chunk_tokens))
    IN  {i \in 0..(Len(PageTokensOf(q).full_text_tokens) - need) :
            SameOffsetMatches(chunk_tokens, q, i) >= need}

Least(S) == CHOOSE i \in S : \A i2 \in S : i <= i2

\* the blocks of page q with a token in [i, i + n)
BlocksOfWindow(q, i, n) ==
    LET pos == PageTokensOf(q).block_positions
    IN  {pos[b][3] : b \in {c \in 1..Len(pos) : pos[c][1] < i + n /\ pos[c][2] > i}}

\* C30: for a chunk of 3 or more tokens, the blocks found are the blocks of
\* the first accepted window of every searched page that has an accepted
\* window, each block once and one window per page, and the highlight has
\* areas on exactly these pages (a page that the hint leaves unsearched
\* gets none).
C30_RepeatedChunk ==
    \A k \in 1..Len(phs.trace) :
        phs.trace[k].path = "window" =>
            LET t == phs.trace[k]
                chunk_tokens == _tokenize(phs.chunks[k].text)
                hit == {q \in SearchedPages(k) : AcceptedAt(chunk_tokens, q) # {}}
                want == UNION {BlocksOfWindow(q, Least(AcceptedAt(chunk_tokens, q)),
                                              Len(chunk_tokens)) : q \in hit}
            IN  /\ Listed(t.matching_blocks) = want
                /\ Len(t.matching_blocks) = Cardinality(want)
                /\ {t.windows[w].page_idx : w \in 1..Len(t.windows)} = hit
                /\ Len(t.windows) = Cardinality(hit)
                /\ \A w \in 1..Len(t.windows) :
                       t.windows[w].i = Least(AcceptedAt(chunk_tokens, t.windows[w].page_idx))
                /\ (t.hl = <<>>) <=> (hit = {})
                /\ hit # {} => AreaPages(t.hl[1].areas) = hit

\* a chunk of three tokens had several accepted windows on each of two
\* pages and got the blocks of the first window of each page
C30_Witness ==
    \E k \in 1..Len(phs.trace) :
        LET chunk_tokens == _tokenize(phs.chunks[k].text)
        IN  /\ phs.trace[k].path = "window"
            /\ Len(phs.trace[k].windows) = 2
            /\ \A w \in 1..2 :
                   Cardinality(AcceptedAt(chunk_tokens, phs.trace[k].windows[w].page_idx)) >= 2
            /\ Len(phs.trace[k].matching_blocks) = 4
            /\ Len(phs.highlights) = 1
            /\ AreaPages(phs.highlights[1].areas) = {0, 1}

----------------------------------------------------------------------------
(* Single-chunk lookup (specification LifeSpec) *)

\* C22 as stated, in what it needs first: in a session of any highlighter
\* class, a single-chunk lookup find_chunk_highlights(chunk_id, content)
\* gives an outcome (a ChunkHighlight or None) that can be compared with the
\* batch result.
C22_SingleLookupAnswers ==
    life.single # "none" => life.single = "returned"

----------------------------------------------------------------------------
(* Shape of the result list (specification BatchSpec) *)

\* a from position i on is a subsequence of b from position j on
RECURSIVE SubsequenceFrom(_, _, _, _)
SubsequenceFrom(a, i, b, j) ==
    IF i > Len(a) THEN TRUE
    ELSE IF j > Len(b) THEN FALSE
    ELSE IF a[i] = b[j] THEN SubsequenceFrom(a, i + 1, b, j + 1)
    ELSE SubsequenceFrom(a, i, b, j + 1)

\* (id, text) of the returned highlights, and of the chunks given; a chunk
\* without an id counts as "unknown"
ReturnedIds(res) == [r \in 1..Len(res) |-> <<res[r].chunkId, res[r].text>>]
GivenIds(chunk_list, id(_), text(_)) ==
    [k \in 1..Len(chunk_list) |-> <<id(chunk_list[k]), text(chunk_list[k])>>]

\* C23: for LightRAGHighlighter and highlight.PDFHighlighter, the returned
\* highlights, taken as (chunk id, text), are a subsequence of the chunks
\* given: at most one highlight per chunk, in input order, never more
\* highlights than chunks.
C23_ResultListShape ==
    /\ Len(results) <= Len(chunks)
    /\ SubsequenceFrom(ReturnedIds(results), 1,
                       GivenIds(chunks,
                                LAMBDA c : Get(c, "chunk_id", Get(c, "id", "unknown")),
                                LAMBDA c : Get(c, "content", Get(c, "text", <<>>))), 1)
    /\ Len(hls.results) <= Len(hls.chunks)
    /\ SubsequenceFrom(ReturnedIds(hls.results), 1,
                       GivenIds(hls.chunks,
                                LAMBDA c : Get(c, "id", "unknown"),
                                LAMBDA c : Get(c, "text", <<>>)), 1)

\* highlight.PDFHighlighter was given a chunk it cannot place and then one
\* it can, and returned one highlight, for the second
C23_Witness ==
    /\ hls.calls = 1
    /\ Len(hls.chunks) = 2
    /\ hls.chunks[1].text # <<>>
    /\ Len(hls.results) = 1
    /\ hls.results[1].text = hls.chunks[2].text
    /\ hls.results[1].text # hls.chunks[1].text

----------------------------------------------------------------------------
(* Properties of _split_into_segments (specification SplitLiveSpec) *)

\* the number of tokens of a segment
SegmentTokens(segment) == Len(Split(segment))

\* what a finished call returned, for window_size > overlap: one segment
\* per offset 0, step, 2*step, ... below the number of tokens, each the
\* tokens from its offset, at most window_size of them, and every token in
\* one of them; no segment for a text without tokens
SplitResultOk ==
    LET n == Len(split.words)
        step == split.window_size - split.overlap
        segs == split.segments
    IN  /\ n = 0 => segs = <<>>
        /\ n > 0 =>
             /\ \A m \in 1..Len(segs) :
                    /\ (m - 1) * step < n
                    /\ segs[m] = JoinTokens(SubSeq(split.words, (m - 1) * step + 1,
                                                   Min((m - 1) * step + split.window_size, n)), 1)
                    /\ SegmentTokens(segs[m]) <= split.window_size
                    /\ SegmentTokens(segs[m]) >= 1
             /\ Len(segs) * step >= n
             /\ \A t \in 0..(n - 1) : \E m \in 1..Len(segs) :
                    (m - 1) * step <= t /\ t < (m - 1) * step + split.window_size

\* C29: a call with window_size > overlap >= 0 that has entered the loop
\* ends, and what it returns is SplitResultOk; a call with window_size <=
\* overlap over a text with at least one token never ends.
C29_SegmentationTerminates ==
    /\ [](split.pc = "done" =>
            IF split.window_size > split.overlap THEN SplitResultOk
            ELSE split.words = <<>>)
    /\ (split.pc = "loop" /\ split.window_size > split.overlap) ~> (split.pc = "done")

\* a call over four tokens with window_size 3 and overlap 1 returned two
\* segments that share a token
C29_Witness ==
    /\ split.pc = "done"
    /\ Len(split.words) = 4
    /\ split.window_size = 3
    /\ split.overlap = 1
    /\ Len(split.segments) = 2
    /\ SegmentTokens(split.segments[1]) = 3
    /\ SegmentTokens(split.segments[2]) = 2

----------------------------------------------------------------------------
(* Properties of two objects alive at once (specification TwoSpec) *)

\* what find_all_highlights(chunk_list) returns from an object of class cls
\* over file that is the only object of its process and has made no call
AloneResults(cls, file, chunk_list) ==
    IF Len(file) = 0 THEN <<>>
    ELSE IF cls = "LightRAGHighlighter"
    THEN Collect([k \in 1..Len(chunk_list) |->
                     ProcessChunkOf(file, BuildIndex(file), chunk_list[k])], 1)
    ELSE EN_Loop(file, [cache |-> [pages_content |-> <<>>, pages_rects |-> <<>>],
                        results |-> <<>>], chunk_list, 1).results

\* C24: whatever the other object has done, the list an object returned is the
\* list it returns alone, and what it holds of its document is its own.
C24_SessionIndependence ==
    \A s \in 1..2 :
        /\ two[s].calls > 0 =>
               two[s].results = AloneResults(two[s].cls, two[s].file, two[s].chunks)
        /\ (two[s].cls = "LightRAGHighlighter" /\ two[s].doc # "None") =>
               SessionIndex(two, s) = BuildIndex(two[s].file)
        /\ \A p \in DOMAIN two[s].pages_rects :
               /\ p + 1 \in 1..Len(two[s].file)
               /\ two[s].pages_rects[p] = two[s].file[p + 1].words

\* both objects ran find_all_highlights while the other was open, over
\* different documents, one of each class, and both returned a highlight
C24_Witness ==
    /\ two[1].during = "open"
    /\ two[2].during = "open"
    /\ two[1].file # two[2].file
    /\ two[1].cls # two[2].cls
    /\ two[1].results # <<>>
    /\ two[2].results # <<>>
    /\ two[1].results # two[2].results

====
